---- MODULE Spec2Model ----
(***************************************************************************)
(* Model of the synthetic session generator of vanguard-client-telemetry:  *)
(* the command line front end (parseArgs), the orchestrator (runner.ts),   *)
(* the four archetype scripts (scenarios.ts), the interaction primitives   *)
(* (behaviors) and the helpers they use.                                   *)
(*                                                                         *)
(* One action models one segment of code between two suspension points     *)
(* (await): the outcome of the awaited browser call is chosen with \E and  *)
(* the synchronous code that follows it is part of the same action.        *)
(* Weights and random draws are exact rationals (numerator / denominator). *)
(***************************************************************************)
EXTENDS Integers, Sequences, FiniteSets, TLC

VARIABLES
    pc,          \* position of the single thread of control
    config,      \* RunConfig: [sessions, scenarioMix]
    browser,     \* "none" | "open" | "closed"
    i,           \* loop variable of runSessions
    started,     \* number of runSingleSession calls made so far
    scenario,    \* archetype of the current session
    ctxOpen,     \* indices of the sessions whose browsing context is open
    logger,      \* SessionLogger of the current session: "none" | "open" | "closed"
    log,         \* records written through the current session's logger
    err,         \* message of the exception being propagated, or NoErr
    threw,       \* indices of the sessions whose script raised
    page,        \* the current session's page: [url, body]
    elements,    \* result of findClickableElements in the current script
    loc,         \* locals of the running script
    rage,        \* locals of rageClick
    verdict,     \* last dead-click classification with the page states it saw
    onThrow,     \* label of the enclosing handler
    env,         \* the target application: [click, snapshots, events, page]
    args,        \* parseArgs reading the parts of --scenarioMix: [k, raw, lastName, prev]
    picked,      \* last call of selectScenario: [mix, rand, result]
    found,       \* locals of findClickableElements: [dom, s, elements, raised, result, done]
    passive,     \* the page's event listeners: [on, fired, dropped]
    sink,        \* the output file and the write streams onto it
    ids,         \* the session identifiers generated so far in the run
    sdk,         \* the client SDK on one page: clock, listeners' state, events sent
    server       \* the ingestion server: requests in flight, log file, responses

vars == <<pc, config, browser, i, started, scenario, ctxOpen, logger, log, err,
          threw, page, elements, loc, rage, verdict, onThrow, env, args, picked,
          found, passive, sink, ids, sdk, server>>

\* session identifiers, the client SDK and the ingestion server
restVars == <<ids, sdk, server>>
\* discovery on its own, the listeners and the sink
otherVars == <<found, passive, sink, restVars>>

----------------------------------------------------------------------------
(* Bounds of the model *)

\* largest --sessions value explored
MaxSessions == 2
\* largest clickCount handed to rageClick by the primitive harness
MaxClicks == 3
\* largest number of name:weight pairs in a --scenarioMix value
MaxPairs == 4
\* largest raw weight written in a --scenarioMix value
MaxWeight == 2
\* largest number of console messages, page exceptions and responses in a session
MaxPassive == 1
\* largest number of records a session logs when the sink is studied on its own
MaxLines == 2
\* largest value of Date.now() when a session identifier is generated
MaxStamp == 3
\* largest random suffix of a session identifier
MaxRandom == 2
\* largest number of DOM events and timer callbacks on a page of the client SDK
MaxSdkSteps == 6
\* largest number of requests posted to the ingestion server
MaxRequests == 3
\* default of --sessions
DefaultSessions == 50

----------------------------------------------------------------------------
(* Values *)

NoErr == "none"
Undefined == "undefined"

BlankUrl == "about:blank"
TradeUrl == "/trade.html"
OtherUrl == "/other.html"
NotFoundUrl == "/nonexistent-page-404.html"
Urls == {TradeUrl, OtherUrl}

\* document.body children, as the sequence of serialized nodes
TradeBody == <<"<button>">>
Bodies == {TradeBody, <<"<button>", "<p>">>}
TradePage == [url |-> TradeUrl, body |-> TradeBody]
BlankPage == [url |-> BlankUrl, body |-> <<>>]

ElemLink == [selector |-> "a[href]", tagName |-> "a", text |-> "Home",
             boundingBox |-> <<0, 0, 80, 20>>]
ElemBack == [selector |-> "button:not([disabled])", tagName |-> "button",
             text |-> "Back", boundingBox |-> <<0, 60, 80, 20>>]

\* the lists discovery can return in the scripts
ElementLists == {<<>>, <<ElemLink>>, <<ElemLink, ElemBack>>}
\* and those it can return on a page with at most one clickable element
PlainLists == {<<>>, <<ElemLink>>}

\* what randomChoice returns for an empty array
NoElem == [selector |-> Undefined, tagName |-> Undefined, text |-> Undefined,
           boundingBox |-> <<>>]

NoLoc == [k |-> 0, n |-> 0, el |-> NoElem, elA |-> NoElem, elB |-> NoElem,
          urlBefore |-> Undefined, urlAtTurn |-> Undefined, moves |-> 0,
          call |-> "none"]
NoRage == [i |-> 0, clickCount |-> 0, element |-> NoElem, ret |-> "none",
           failed |-> {}, broke |-> FALSE]
NoVerdict == [made |-> FALSE]
NoPick == [made |-> FALSE]
NoParse == [k |-> 0, raw |-> [normal |-> 0, frustrated |-> 0, lost |-> 0, error |-> 0],
            lastName |-> Undefined, prev |-> [normal |-> 0, frustrated |-> 0,
                                              lost |-> 0, error |-> 0]]

NoFound == [dom |-> <<>>, s |-> 0, elements |-> <<>>, raised |-> {}, result |-> <<>>,
            done |-> FALSE]
NoPassive == [on |-> FALSE, n |-> 0, dropped |-> 0,
              fired |-> [console |-> 0, pageerror |-> 0, response |-> 0]]
NoSink == [file |-> <<>>, streams |-> <<>>, emitted |-> 0]

NoSdk == [attached |-> FALSE]
NoTarget == [tagName |-> Undefined, id |-> "", name |-> "", ariaLabel |-> "",
             classList |-> <<>>]
NoServer == [listening |-> FALSE]

DefaultMix == [normal |-> 4, frustrated |-> 3, lost |-> 2, error |-> 1, den |-> 10]

----------------------------------------------------------------------------
(* logger.ts *)

Record(type, scen, sel, meta) ==
    [event_type |-> type, scenario |-> scen, selector |-> sel, metadata |-> meta]

NoMeta == [none |-> TRUE]

Count(l, type) == Cardinality({j \in 1 .. Len(l) : l[j].event_type = type})

\* mutant: a line written after close() still reaches the output
writeAfterEnd(l, lg, recs) == l \o recs

\* SessionLogger.log on a logger in state lg: stream.write appends the lines; after
\* close() the stream has ended and what is written to it is discarded
write(l, lg, recs) == IF lg = "open" THEN l \o recs ELSE l

----------------------------------------------------------------------------
(* helpers: randomInt, randomChoice, getHtmlSnapshot, page.content, isDeadClick *)

randomInt(min, max) == min .. max

\* the values randomChoice(array) can return
randomChoice(array) ==
    IF Len(array) = 0 THEN {NoElem} ELSE {array[j] : j \in 1 .. Len(array)}

\* document.body.innerHTML: the serialization of the children of body
getHtmlSnapshot(p) == p.body

\* page.content(): the serialization of the whole document
pageContent(p) ==
    <<"<!DOCTYPE html>", "<html>", "<head>", "</head>", "<body>">>
        \o p.body \o <<"</body>", "</html>">>

\* isDeadClick(page, beforeUrl, beforeHtml), after its settle delay
isDeadClick(p, beforeUrl, beforeHtml) ==
    LET afterUrl == p.url
        afterHtml == pageContent(p)
        urlChanged == beforeUrl # afterUrl
        htmlChanged == beforeHtml # afterHtml
    IN  ~urlChanged /\ ~htmlChanged

\* the pages a successful click can leave behind
ClickEffects(p) == {p} \cup [url : Urls, body : Bodies]

Navigated(p) == [url |-> IF p.url = OtherUrl THEN TradeUrl ELSE OtherUrl, body |-> p.body]

\* outcome of locator.click(): the page afterwards and whether it resolved.
\* env.click is the behaviour of the application under test: "any" leaves every
\* click free, the others fix what a click does for the whole run.
ClickOutcomes(p) ==
    CASE env.click = "any" ->
            {[page |-> p, ok |-> FALSE]}
                \cup {[page |-> q, ok |-> TRUE] : q \in ClickEffects(p)}
      [] env.click = "static" -> {[page |-> p, ok |-> TRUE]}
      [] env.click = "navigates" -> {[page |-> Navigated(p), ok |-> TRUE]}
      [] env.click = "fails" -> {[page |-> p, ok |-> FALSE]}

\* the lists findClickableElements can return on the page of the application
FoundLists == IF env.page = "plain" THEN PlainLists ELSE ElementLists

\* whether getHtmlSnapshot / page.content can reject in the primitives
SnapshotMayFail == env.snapshots = "may_fail"

----------------------------------------------------------------------------
(* Exceptions: control goes to the enclosing handler *)

Throw(msg) == pc' = onThrow /\ err' = msg

Goto(label) == pc' = label /\ err' = err

----------------------------------------------------------------------------
(* behaviors: performClick, performDeadClick, refocusClick, rageClick.     *)
(* Each fragment sets pc, err, page, log and verdict.                      *)

ClickRecord(el, scen, beforeUrl, afterUrl) ==
    Record("click", scen, el.selector,
           [url_changed |-> beforeUrl # afterUrl, text |-> el.text,
            bounding_box |-> el.boundingBox])

\* mutant: the rejection of the click is not caught
performClickRaises(el, scen, more, next) ==
    \E o \in ClickOutcomes(page) :
        /\ page' = o.page
        /\ IF o.ok
           THEN /\ log' = Append(log, ClickRecord(el, scen, page.url, o.page.url)) \o more
                /\ Goto(next)
           ELSE /\ log' = log
                /\ Throw("locator.click: Timeout 3000ms exceeded")
        /\ UNCHANGED verdict

\* performClick followed by the synchronous code `more` logs after it
performClick(el, scen, more, next) ==
    \E o \in ClickOutcomes(page) :
        /\ page' = o.page
        /\ log' = Append(log, ClickRecord(el, scen, page.url, o.page.url)) \o more
        /\ Goto(next)
        /\ UNCHANGED verdict

DeadClickRecord(el, isDead) ==
    Record(IF isDead THEN "dead_click" ELSE "click", "normal_user", el.selector,
           [is_dead_click |-> isDead, bounding_box |-> el.boundingBox])

Classified(before, after, isDead) ==
    [made |-> TRUE, isDead |-> isDead, beforeUrl |-> before.url, beforeBody |-> before.body,
     afterUrl |-> after.url, afterBody |-> after.body]

performDeadClick(el, next) ==
    \/ /\ SnapshotMayFail
       /\ Throw("page.evaluate: execution context was destroyed")
       /\ UNCHANGED <<page, log, verdict>>
    \/ \E o \in ClickOutcomes(page) :
          /\ page' = o.page
          /\ \/ /\ SnapshotMayFail
                /\ Throw("page.content: target closed")
                /\ UNCHANGED <<log, verdict>>
             \/ LET isDead == isDeadClick(o.page, page.url, getHtmlSnapshot(page))
                IN  /\ log' = Append(log, DeadClickRecord(el, isDead))
                    /\ verdict' = Classified(page, o.page, isDead)
                    /\ Goto(next)

RefocusRecord(el, scen) ==
    Record("refocus", scen, el.selector, [bounding_box |-> el.boundingBox])

\* refocusClick: performClick, a delay, then a second click; `more` as in performClick
refocusClick(el, scen, more, next) ==
    \E o1 \in ClickOutcomes(page) : \E o2 \in ClickOutcomes(o1.page) :
        /\ page' = o2.page
        /\ log' = Append(log, ClickRecord(el, scen, page.url, o1.page.url))
                    \o (IF o2.ok THEN <<RefocusRecord(el, scen)>> ELSE <<>>) \o more
        /\ Goto(next)
        /\ UNCHANGED verdict

\* mutant: the record carries the loop index instead of index + 1
RageRecordZeroBased(el, idx, clickCount, isDead) ==
    Record("rage_click", "frustrated_user", el.selector,
           [click_number |-> idx, total_clicks |-> clickCount,
            is_dead_click |-> isDead, bounding_box |-> el.boundingBox])

\* mutant: the record of the primitive carries the label of another archetype
RageRecordMislabelled(el, idx, clickCount, isDead) ==
    Record("rage_click", "normal_user", el.selector,
           [click_number |-> idx + 1, total_clicks |-> clickCount,
            is_dead_click |-> isDead, bounding_box |-> el.boundingBox])

RageRecord(el, idx, clickCount, isDead) ==
    Record("rage_click", "frustrated_user", el.selector,
           [click_number |-> idx + 1, total_clicks |-> clickCount,
            is_dead_click |-> isDead, bounding_box |-> el.boundingBox])

\* the call rageClick(page, logger, el, clickCount) returning to `ret`
rageClickCall(el, clickCount, ret) ==
    /\ rage' = [i |-> 0, clickCount |-> clickCount, element |-> el, ret |-> ret,
                failed |-> {}, broke |-> FALSE]
    /\ Goto("rage_loop")

\* one repetition of the loop of rageClick, or its exit
RageRepeat ==
    /\ pc = "rage_loop"
    /\ UNCHANGED <<config, browser, i, started, scenario, ctxOpen, logger, threw,
                   elements, loc, onThrow, env, args, picked, otherVars>>
    /\ IF rage.i < rage.clickCount
       THEN \/ \* getHtmlSnapshot raises: caught, break
               /\ SnapshotMayFail
               /\ rage' = [rage EXCEPT !.broke = TRUE]
               /\ Goto("rage_return")
               /\ UNCHANGED <<page, log, verdict>>
            \/ \E o \in ClickOutcomes(page) :
                  /\ page' = o.page
                  /\ \/ \* page.content() raises in isDeadClick: caught, break
                        /\ SnapshotMayFail
                        /\ rage' = [rage EXCEPT !.broke = TRUE,
                               !.failed = IF o.ok THEN @ ELSE @ \cup {rage.i + 1}]
                        /\ Goto("rage_return")
                        /\ UNCHANGED <<log, verdict>>
                     \/ LET isDead == isDeadClick(o.page, page.url, getHtmlSnapshot(page))
                        IN  /\ log' = Append(log, RageRecord(rage.element, rage.i,
                                                             rage.clickCount, isDead))
                            /\ verdict' = Classified(page, o.page, isDead)
                            /\ rage' = [rage EXCEPT !.i = @ + 1,
                                   !.failed = IF o.ok THEN @ ELSE @ \cup {rage.i + 1}]
                            /\ Goto("rage_loop")
       ELSE /\ Goto("rage_return")
            /\ UNCHANGED <<rage, page, log, verdict>>

RageReturn ==
    /\ pc = "rage_return"
    /\ Goto(rage.ret)
    /\ rage' = NoRage
    /\ UNCHANGED <<config, browser, i, started, scenario, ctxOpen, logger, log,
                   threw, page, elements, loc, verdict, onThrow, env, args, picked,
                   otherVars>>

----------------------------------------------------------------------------
(* runner.ts *)

scriptVars == <<page, elements, loc, rage, verdict>>
runVars == <<config, browser, i, started, scenario, ctxOpen, logger, threw, onThrow>>
cliVars == <<args, picked, env>>

\* rand < cumulative, for rand = num / den and cumulative = cum / mixDen
Less(rand, cum, mixDen) == rand.num * mixDen < cum * rand.den

\* mutant: the comparisons are rand <= cumulative
selectScenarioInclusive(mix, rand) ==
    LET c1 == mix.normal
        c2 == c1 + mix.frustrated
        c3 == c2 + mix.lost
    IN  IF ~Less([num |-> c1, den |-> mix.den], rand.num, rand.den) THEN "normal_user"
        ELSE IF ~Less([num |-> c2, den |-> mix.den], rand.num, rand.den)
             THEN "frustrated_user"
        ELSE IF ~Less([num |-> c3, den |-> mix.den], rand.num, rand.den) THEN "lost_user"
        ELSE "error_user"

selectScenario(mix, rand) ==
    LET c1 == mix.normal
        c2 == c1 + mix.frustrated
        c3 == c2 + mix.lost
    IN  IF Less(rand, c1, mix.den) THEN "normal_user"
        ELSE IF Less(rand, c2, mix.den) THEN "frustrated_user"
        ELSE IF Less(rand, c3, mix.den) THEN "lost_user"
        ELSE "error_user"

\* the values Math.random() is drawn from: k / (2 * den), 0 <= k < 2 * den
Draws(mix) == [num : 0 .. (2 * mix.den - 1), den : {2 * mix.den}]

\* chromium.launch()
Launch ==
    /\ pc = "rs_launch"
    /\ \/ browser' = "open" /\ Goto("rs_loop")
       \/ browser' = browser /\ pc' = "rs_rejected" /\ err' = "browserType.launch failed"
    /\ UNCHANGED <<config, i, started, scenario, ctxOpen, logger, log, threw, onThrow>>
    /\ UNCHANGED <<scriptVars, cliVars, otherVars>>

\* the loop test of runSessions, selectScenario and the call of runSingleSession
LoopTest ==
    /\ pc = "rs_loop"
    /\ IF i < config.sessions
       THEN \E rand \in Draws(config.scenarioMix) :
               /\ scenario' = selectScenario(config.scenarioMix, rand)
               /\ started' = started + 1
               /\ Goto("ss_newContext")
       ELSE /\ Goto("rs_finally")
            /\ UNCHANGED <<scenario, started>>
    /\ UNCHANGED <<config, browser, i, ctxOpen, logger, log, threw, onThrow>>
    /\ UNCHANGED <<scriptVars, cliVars, otherVars>>

\* await browser.newContext(...)
NewContext ==
    /\ pc = "ss_newContext"
    /\ \/ ctxOpen' = ctxOpen \cup {i + 1} /\ Goto("ss_newPage")
       \/ ctxOpen' = ctxOpen /\ pc' = "rs_finally" /\ err' = "browser.newContext failed"
    /\ UNCHANGED <<config, browser, i, started, scenario, logger, log, threw, onThrow>>
    /\ UNCHANGED <<scriptVars, cliVars, otherVars>>

\* await context.newPage(), generateSessionId, new SessionLogger
NewPage ==
    /\ pc = "ss_newPage"
    /\ \/ /\ page' = BlankPage
          /\ logger' = "open"
          /\ log' = <<>>
          /\ Goto("ss_try")
       \/ /\ pc' = "rs_finally" /\ err' = "context.newPage failed"
          /\ UNCHANGED <<page, logger, log>>
    /\ UNCHANGED <<config, browser, i, started, scenario, ctxOpen, threw, onThrow>>
    /\ UNCHANGED <<elements, loc, rage, verdict, cliVars, otherVars>>

SessionStart(scen) == Record("session_start", scen, Undefined, NoMeta)

\* runScenario: the switch, and the script up to its first await (session_start and,
\* in errorUserScenario, the registration of the three page listeners)
RunScenario ==
    /\ pc = "ss_try"
    /\ onThrow' = "ss_catch"
    /\ log' = Append(log, SessionStart(scenario))
    /\ Goto(CASE scenario = "normal_user" -> "n_goto"
              [] scenario = "frustrated_user" -> "f_goto"
              [] scenario = "lost_user" -> "l_goto"
              [] scenario = "error_user" -> "e_goto404")
    /\ passive' = IF scenario = "error_user" THEN [NoPassive EXCEPT !.on = TRUE]
                  ELSE passive
    /\ UNCHANGED <<config, browser, i, started, scenario, ctxOpen, logger, threw>>
    /\ UNCHANGED <<scriptVars, cliVars, found, sink, restVars>>

ErrorEnd(scen, message) ==
    Record("session_end", scen, Undefined, [error |-> message, stack |-> message])

\* the catch block of runSingleSession
SessionCatch ==
    /\ pc = "ss_catch"
    /\ log' = Append(log, ErrorEnd(scenario, err))
    /\ threw' = threw \cup {i + 1}
    /\ err' = NoErr
    /\ pc' = "ss_finally"
    /\ loc' = NoLoc /\ elements' = <<>> /\ rage' = NoRage /\ verdict' = NoVerdict
    /\ UNCHANGED <<config, browser, i, started, scenario, ctxOpen, logger, onThrow, page>>
    /\ UNCHANGED <<cliVars, otherVars>>

\* mutant: the finally block closes the logger and leaves the context open
SessionFinallyLeak ==
    /\ pc = "ss_finally"
    /\ logger' = "closed"
    /\ log' = <<>>
    /\ Goto("rs_delay")
    /\ loc' = NoLoc /\ elements' = <<>> /\ rage' = NoRage /\ verdict' = NoVerdict
    /\ UNCHANGED <<config, browser, i, started, scenario, ctxOpen, threw, onThrow, page>>
    /\ UNCHANGED <<cliVars, otherVars>>

\* the finally block of runSingleSession: logger.close(), then context.close() is issued
SessionFinally ==
    /\ pc = "ss_finally"
    /\ logger' = "closed"
    /\ log' = log
    /\ Goto("ss_closing")
    /\ loc' = NoLoc /\ elements' = <<>> /\ rage' = NoRage /\ verdict' = NoVerdict
    /\ UNCHANGED <<config, browser, i, started, scenario, ctxOpen, threw, onThrow, page>>
    /\ UNCHANGED <<cliVars, otherVars>>

\* await context.close() settles: runSingleSession returns or raises.  The session's
\* records are in the output from here on; log holds the records of one session.
ContextClose ==
    /\ pc = "ss_closing"
    /\ \/ ctxOpen' = ctxOpen \ {i + 1} /\ Goto("rs_delay")
       \/ /\ ctxOpen' \in {ctxOpen, ctxOpen \ {i + 1}}
          /\ pc' = "rs_finally" /\ err' = "context.close failed"
    /\ log' = <<>>
    /\ passive' = NoPassive
    /\ UNCHANGED <<config, browser, i, started, scenario, logger, threw, onThrow>>
    /\ UNCHANGED <<scriptVars, cliVars, found, sink, restVars>>

\* the 500 ms delay between sessions, and i++
SessionDelay ==
    /\ pc = "rs_delay"
    /\ i' = i + 1
    /\ Goto("rs_loop")
    /\ page' = BlankPage
    /\ UNCHANGED <<config, browser, started, scenario, ctxOpen, logger, log, threw, onThrow>>
    /\ UNCHANGED <<elements, loc, rage, verdict, cliVars, otherVars>>

\* browser.close() placed after the loop instead of in a finally block
BrowserCloseAfterLoop ==
    /\ pc = "rs_finally"
    /\ browser' = IF err = NoErr THEN "closed" ELSE browser
    /\ ctxOpen' = IF err = NoErr THEN {} ELSE ctxOpen
    /\ pc' = IF err = NoErr THEN "rs_done" ELSE "rs_rejected"
    /\ err' = err
    /\ UNCHANGED <<config, i, started, scenario, logger, log, threw, onThrow>>
    /\ UNCHANGED <<scriptVars, cliVars, otherVars>>

\* the finally block of runSessions: browser.close() ends every context of the browser
BrowserClose ==
    /\ pc = "rs_finally"
    /\ browser' = "closed"
    /\ ctxOpen' = {}
    /\ pc' = IF err = NoErr THEN "rs_done" ELSE "rs_rejected"
    /\ err' = err
    /\ UNCHANGED <<config, i, started, scenario, logger, log, threw, onThrow>>
    /\ UNCHANGED <<scriptVars, cliVars, otherVars>>

----------------------------------------------------------------------------
(* scenarios.ts.  The timer delays (randomDelay) of a script are part of    *)
(* the action of the code around them.                                     *)

Event(type, scen, meta) == Record(type, scen, Undefined, meta)

Navigation(scen) == Event("page_navigation", scen, [target_url |-> TradeUrl])

\* a script returns to runSingleSession
Return == Goto("ss_finally")

\* what the scripts leave alone
Script == UNCHANGED <<runVars, cliVars, otherVars>>

(* normalUserScenario *)

NormalGoto ==
    /\ pc = "n_goto" /\ Script
    /\ \/ /\ Throw("page.goto: net::ERR_CONNECTION_REFUSED")
          /\ UNCHANGED <<page, log>>
       \/ /\ page' = TradePage
          /\ log' = log \o <<Navigation("normal_user"),
                               Event("idle", "normal_user", [reason |-> "initial_hesitancy"])>>
          /\ Goto("n_find")
    /\ UNCHANGED <<elements, loc, rage, verdict>>

NormalFind ==
    /\ pc = "n_find" /\ Script
    /\ \E els \in FoundLists, numActions \in randomInt(3, 5) :
          /\ elements' = els
          /\ loc' = [NoLoc EXCEPT !.n = numActions]
    /\ Goto("n_loop")
    /\ UNCHANGED <<page, log, rage, verdict>>

NormalEnd(numActions) ==
    <<Event("idle", "normal_user", [reason |-> "end_of_session"]),
      Event("session_end", "normal_user", [total_actions |-> numActions])>>

\* the loop test, randomChoice and the break; after the loop, the end of the script
NormalLoop ==
    /\ pc = "n_loop" /\ Script
    /\ \E element \in randomChoice(elements) :
          IF loc.k < loc.n /\ element # NoElem
          THEN /\ loc' = [loc EXCEPT !.el = element]
               /\ Goto("n_action")
               /\ log' = log
          ELSE /\ log' = log \o NormalEnd(loc.n)
               /\ Return
               /\ loc' = loc
    /\ UNCHANGED <<page, elements, rage, verdict>>

\* mutant: every action goes through dead-click detection
NormalActionAllDetected ==
    /\ pc = "n_action" /\ Script
    /\ \E scroll \in BOOLEAN :
          /\ performDeadClick(loc.el, IF scroll THEN "n_scroll" ELSE "n_loop")
          /\ loc' = IF scroll THEN loc ELSE [loc EXCEPT !.k = @ + 1]
    /\ UNCHANGED <<elements, rage>>

\* the action of iteration k, and the draw that decides whether to scroll
NormalAction ==
    /\ pc = "n_action" /\ Script
    /\ \E scroll \in BOOLEAN :
          /\ IF loc.k = 0
             THEN performDeadClick(loc.el, IF scroll THEN "n_scroll" ELSE "n_loop")
             ELSE performClick(loc.el, "normal_user", <<>>,
                               IF scroll THEN "n_scroll" ELSE "n_loop")
          /\ loc' = IF scroll THEN loc ELSE [loc EXCEPT !.k = @ + 1]
    /\ UNCHANGED <<elements, rage>>

NormalScroll ==
    /\ pc = "n_scroll" /\ Script
    /\ \/ /\ Throw("page.evaluate: execution context was destroyed")
          /\ UNCHANGED <<log, loc>>
       \/ /\ log' = Append(log, Event("scroll", "normal_user", [direction |-> "down"]))
          /\ loc' = [loc EXCEPT !.k = @ + 1]
          /\ Goto("n_loop")
    /\ UNCHANGED <<page, elements, rage, verdict>>

(* frustratedUserScenario *)

FrustratedGoto ==
    /\ pc = "f_goto" /\ Script
    /\ \/ /\ Throw("page.goto: net::ERR_CONNECTION_REFUSED")
          /\ UNCHANGED <<page, log, loc>>
       \/ /\ page' = TradePage
          /\ log' = Append(log, Navigation("frustrated_user"))
          /\ \E iterations \in randomInt(3, 7) : loc' = [NoLoc EXCEPT !.n = iterations]
          /\ Goto("f_shake")
    /\ UNCHANGED <<elements, rage, verdict>>

\* simulateMouseShake: one pointer move per step; then the mouse_move record
FrustratedShake ==
    /\ pc = "f_shake" /\ Script
    /\ IF loc.k < loc.n
       THEN \/ /\ Throw("mouse.move: target closed")
               /\ UNCHANGED <<log, loc>>
            \/ /\ loc' = [loc EXCEPT !.k = @ + 1, !.moves = @ + 1]
               /\ Goto("f_shake")
               /\ log' = log
       ELSE /\ \E iterations \in randomInt(3, 7) :
                  log' = Append(log, Event("mouse_move", "frustrated_user",
                                           [behavior |-> "shake", iterations |-> iterations]))
            /\ Goto("f_find")
            /\ loc' = loc
    /\ UNCHANGED <<page, elements, rage, verdict>>

FrustratedFind ==
    /\ pc = "f_find" /\ Script
    /\ \E els \in FoundLists : \E targetElement \in randomChoice(els) :
          /\ elements' = els
          /\ IF targetElement # NoElem
             THEN \E clickCount \in randomInt(4, 8) :
                     rageClickCall(targetElement, clickCount, "f_scroll")
             ELSE Goto("f_scroll") /\ rage' = rage
    /\ loc' = NoLoc
    /\ UNCHANGED <<page, log, verdict>>

\* mutant: the scroll record carries the loop index instead of index + 1
FrustratedScrollZeroBased ==
    /\ pc = "f_scroll" /\ Script
    /\ \E bound \in randomInt(3, 6) :
          IF loc.k < bound
          THEN \/ /\ Throw("page.evaluate: execution context was destroyed")
                  /\ UNCHANGED <<log, loc>>
               \/ /\ log' = Append(log, Event("scroll", "frustrated_user",
                                   [behavior |-> "erratic", iteration |-> loc.k]))
                  /\ loc' = [loc EXCEPT !.k = @ + 1]
                  /\ Goto("f_scroll")
          ELSE /\ loc' = [loc EXCEPT !.k = 0]
               /\ Goto("f_clicks")
               /\ log' = log
    /\ UNCHANGED <<page, elements, rage, verdict>>

\* the erratic scroll loop; its bound is drawn again at every test
FrustratedScroll ==
    /\ pc = "f_scroll" /\ Script
    /\ \E bound \in randomInt(3, 6) :
          IF loc.k < bound
          THEN \/ /\ Throw("page.evaluate: execution context was destroyed")
                  /\ UNCHANGED <<log, loc>>
               \/ /\ log' = Append(log, Event("scroll", "frustrated_user",
                                   [behavior |-> "erratic", iteration |-> loc.k + 1]))
                  /\ loc' = [loc EXCEPT !.k = @ + 1]
                  /\ Goto("f_scroll")
          ELSE /\ loc' = [loc EXCEPT !.k = 0]
               /\ Goto("f_clicks")
               /\ log' = log
    /\ UNCHANGED <<page, elements, rage, verdict>>

\* the rapid click loop, then the end of the script
FrustratedClicks ==
    /\ pc = "f_clicks" /\ Script
    /\ \E bound \in randomInt(3, 5) : \E element \in randomChoice(elements) :
          IF loc.k < bound
          THEN /\ IF element # NoElem
                  THEN performClick(element, "frustrated_user", <<>>, "f_clicks")
                  ELSE Goto("f_clicks") /\ UNCHANGED <<page, log, verdict>>
               /\ loc' = [loc EXCEPT !.k = @ + 1]
          ELSE /\ log' = Append(log, Event("session_end", "frustrated_user", NoMeta))
               /\ Return
               /\ UNCHANGED <<page, loc, verdict>>
    /\ UNCHANGED <<elements, rage>>

(* lostUserScenario *)

\* String.prototype.toLowerCase on the texts of the model
toLowerCase(str) ==
    CASE str = "Home" -> "home"
      [] str = "Help" -> "help"
      [] str = "Back" -> "back"
      [] OTHER -> str

\* the strings of the model that contain "back"
includesBack(str) == str \in {"back", "go back", "#backBtn"}

\* Array.prototype.filter(e => e !== x)
Without(array, x) == SelectSeq(array, LAMBDA e : e # x)

\* the predicate handed to elements.find for the return target
isBackTarget(e, elementA) ==
    \/ includesBack(toLowerCase(e.text))
    \/ includesBack(e.selector)
    \/ e = elementA

\* Array.prototype.find: the first element that satisfies the predicate
findBack(array, elementA) ==
    LET hits == {j \in 1 .. Len(array) : isBackTarget(array[j], elementA)}
    IN  IF hits = {} THEN NoElem
        ELSE array[CHOOSE j \in hits : \A h \in hits : j <= h]

LostGoto ==
    /\ pc = "l_goto" /\ Script
    /\ \/ /\ Throw("page.goto: net::ERR_CONNECTION_REFUSED")
          /\ UNCHANGED <<page, log>>
       \/ /\ page' = TradePage
          /\ log' = log \o <<Navigation("lost_user"),
                               Event("idle", "lost_user", [reason |-> "hesitation"])>>
          /\ Goto("l_find")
    /\ UNCHANGED <<elements, loc, rage, verdict>>

\* findClickableElements, the early return, and the choice of A and B
LostFind ==
    /\ pc = "l_find" /\ Script
    /\ \E els \in FoundLists :
          /\ elements' = els
          /\ IF Len(els) < 2
             THEN Return /\ loc' = loc
             ELSE \E elementA \in randomChoice(els) :
                  \E elementB \in randomChoice(Without(els, elementA)) :
                     /\ loc' = [NoLoc EXCEPT !.elA = elementA, !.elB = elementB,
                                             !.urlBefore = page.url]
                     /\ Goto("l_clickA")
    /\ UNCHANGED <<page, log, rage, verdict>>

LostClickA ==
    /\ pc = "l_clickA" /\ Script
    /\ performClick(loc.elA, "lost_user", <<>>, "l_clickB")
    /\ UNCHANGED <<elements, loc, rage>>

LostClickB ==
    /\ pc = "l_clickB" /\ Script
    /\ performClick(loc.elB, "lost_user", <<>>, "l_uturn")
    /\ UNCHANGED <<elements, loc, rage>>

UTurn(elementA, elementB, backElement) ==
    Event("u_turn", "lost_user",
          [path |-> <<elementA.selector, elementB.selector, backElement.selector>>,
           duration_seconds |-> 7])

\* mutant: the return depends on the draw alone
LostUTurnOnDrawOnly ==
    /\ pc = "l_uturn" /\ Script
    /\ \E coin \in BOOLEAN :
          LET backElement == findBack(elements, loc.elA)
          IN  IF coin /\ backElement # NoElem
              THEN performClick(backElement, "lost_user",
                                <<UTurn(loc.elA, loc.elB, backElement)>>, "l_refocus1")
              ELSE Goto("l_refocus1") /\ UNCHANGED <<page, log, verdict>>
    /\ \E refocusElement \in randomChoice(elements) :
          loc' = [loc EXCEPT !.el = refocusElement, !.urlAtTurn = page.url]
    /\ UNCHANGED <<elements, rage>>

\* the U-turn step, then the choice of the element to refocus; urlAtTurn keeps the
\* value of page.url() the condition was evaluated with
LostUTurn ==
    /\ pc = "l_uturn" /\ Script
    /\ \E coin \in BOOLEAN :
          LET backElement == findBack(elements, loc.elA)
          IN  IF (loc.urlBefore = page.url \/ coin) /\ backElement # NoElem
              THEN performClick(backElement, "lost_user",
                                <<UTurn(loc.elA, loc.elB, backElement)>>, "l_refocus1")
              ELSE Goto("l_refocus1") /\ UNCHANGED <<page, log, verdict>>
    /\ \E refocusElement \in randomChoice(elements) :
          loc' = [loc EXCEPT !.el = refocusElement, !.urlAtTurn = page.url]
    /\ UNCHANGED <<elements, rage>>

LostRefocus1 ==
    /\ pc = "l_refocus1" /\ Script
    /\ refocusClick(loc.el, "lost_user", <<>>, "l_refocus2")
    /\ UNCHANGED <<elements, loc, rage>>

\* the second refocusClick, the pause and the end of the script
LostRefocus2 ==
    /\ pc = "l_refocus2" /\ Script
    /\ refocusClick(loc.el, "lost_user",
                    <<Event("idle", "lost_user", [reason |-> "confusion"]),
                      Event("session_end", "lost_user", NoMeta)>>, "ss_finally")
    /\ UNCHANGED <<elements, loc, rage>>

(* errorUserScenario *)

\* mutant: the rejection of the navigation to the invalid URL is not caught
ErrorGoto404Raises ==
    /\ pc = "e_goto404" /\ Script
    /\ \/ /\ Throw("page.goto: Timeout 5000ms exceeded")
          /\ UNCHANGED <<page, log>>
       \/ /\ page' = [url |-> NotFoundUrl, body |-> <<"<p>">>]
          /\ log' = log
          /\ Goto("e_goto")
    /\ UNCHANGED <<elements, loc, rage, verdict>>

\* the navigation to the invalid URL, whose rejection is caught
ErrorGoto404 ==
    /\ pc = "e_goto404" /\ Script
    /\ \/ /\ log' = Append(log, Event("network_error", "error_user",
                                       [status |-> 404, error |-> "Page not found"]))
          /\ page' = page
       \/ /\ page' = [url |-> NotFoundUrl, body |-> <<"<p>">>]
          /\ log' = log
    /\ Goto("e_goto")
    /\ UNCHANGED <<elements, loc, rage, verdict>>

ErrorGoto ==
    /\ pc = "e_goto" /\ Script
    /\ \/ /\ Throw("page.goto: net::ERR_CONNECTION_REFUSED")
          /\ UNCHANGED <<page, log>>
       \/ /\ page' = TradePage
          /\ log' = Append(log, Navigation("error_user"))
          /\ Goto("e_find")
    /\ UNCHANGED <<elements, loc, rage, verdict>>

\* findClickableElements and the two isVisible probes
ErrorFind ==
    /\ pc = "e_find" /\ Script
    /\ \E els \in FoundLists : elements' = els
    /\ \E symbolVisible \in BOOLEAN, nextVisible \in BOOLEAN :
          Goto(IF symbolVisible /\ nextVisible THEN "e_next" ELSE "e_loop")
    /\ loc' = NoLoc
    /\ UNCHANGED <<page, log, rage, verdict>>

\* await nextBtn.click(), outside any try
ErrorNext ==
    /\ pc = "e_next" /\ Script
    /\ \E o \in ClickOutcomes(page) :
          /\ page' = o.page
          /\ IF o.ok THEN Goto("e_loop") ELSE Throw("locator.click: Timeout 30000ms exceeded")
    /\ UNCHANGED <<log, elements, loc, rage, verdict>>

\* the loop of clicks that may use the wrong selector, then the choice of retryElement
ErrorLoop ==
    /\ pc = "e_loop" /\ Script
    /\ \E bound \in randomInt(2, 4) : \E element \in randomChoice(elements) :
          IF loc.k < bound
          THEN /\ \E wrong \in BOOLEAN :
                     IF element # NoElem /\ ~wrong
                     THEN performClick(element, "error_user", <<>>, "e_loop")
                     ELSE Goto("e_loop") /\ UNCHANGED <<page, log, verdict>>
               /\ loc' = [loc EXCEPT !.k = @ + 1]
          ELSE /\ loc' = [loc EXCEPT !.k = 0, !.el = element]
               /\ Goto("e_retry")
               /\ UNCHANGED <<page, log, verdict>>
    /\ UNCHANGED <<elements, rage>>

\* the three retries, then the end of the script
ErrorRetry ==
    /\ pc = "e_retry" /\ Script
    /\ IF loc.el # NoElem /\ loc.k < 3
       THEN /\ performClick(loc.el, "error_user", <<>>, "e_retry")
            /\ loc' = [loc EXCEPT !.k = @ + 1]
       ELSE /\ log' = Append(log, Event("session_end", "error_user", NoMeta))
            /\ Return
            /\ UNCHANGED <<page, loc, verdict>>
    /\ UNCHANGED <<elements, rage>>

(* the listeners errorUserScenario registers on the page *)

\* page.on('console', ...)
onConsole(msgType) ==
    IF msgType = "error"
    THEN <<Event("console_error", "error_user", [message |-> "Uncaught", type |-> msgType])>>
    ELSE <<>>

\* page.on('pageerror', ...)
onPageError(message) ==
    <<Event("page_error", "error_user", [message |-> message, stack |-> message])>>

\* mutant: only the statuses above 400 are logged
onResponseAbove(status) ==
    IF status > 400
    THEN <<Event("network_error", "error_user",
                 [status |-> status, url |-> "/api", statusText |-> "failed"])>>
    ELSE <<>>

\* page.on('response', ...)
onResponse(status) ==
    IF status >= 400
    THEN <<Event("network_error", "error_user",
                 [status |-> status, url |-> "/api", statusText |-> "failed"])>>
    ELSE <<>>

\* what the page can emit: console messages, uncaught exceptions, HTTP responses.
\* env.events tells whether the application under test emits any.
PageEvents ==
    IF env.events = "none" THEN {} ELSE
    [kind : {"console"}, arg : {"error", "warning"}]
        \cup [kind : {"pageerror"}, arg : {"TypeError"}]
        \cup [kind : {"response"}, arg : {200, 400}]

\* the records the listener of an event logs
Listener(ev) ==
    CASE ev.kind = "console" -> onConsole(ev.arg)
      [] ev.kind = "pageerror" -> onPageError(ev.arg)
      [] ev.kind = "response" -> onResponse(ev.arg)

\* whether an event is one the archetype has to log
Qualifies(ev) ==
    CASE ev.kind = "console" -> ev.arg = "error"
      [] ev.kind = "pageerror" -> TRUE
      [] ev.kind = "response" -> ev.arg >= 400

\* the suspension points of errorUserScenario
ErrorAwaits == {"e_goto404", "e_goto", "e_find", "e_next", "e_loop", "e_retry"}

\* the page emits an event while the script is suspended, or while context.close()
\* is pending: its listener runs to completion.  A write on the ended stream is
\* discarded, and raises an unhandled 'error' event unless the stream is destroyed.
PassiveEvent ==
    /\ passive.on
    /\ pc \in ErrorAwaits \cup {"ss_closing"}
    /\ passive.n < MaxPassive
    /\ \E ev \in PageEvents :
          LET recs == Listener(ev)
              lost == logger # "open" /\ recs # <<>>
          IN  /\ log' = write(log, logger, recs)
              /\ passive' = [passive EXCEPT
                      !.n = @ + 1,
                      !.dropped = IF lost THEN @ + 1 ELSE @,
                      !.fired = IF Qualifies(ev) /\ logger = "open"
                                THEN [@ EXCEPT ![ev.kind] = @ + 1] ELSE @]
              /\ \/ pc' = pc /\ err' = err
                 \/ lost /\ pc' = "crashed" /\ err' = "ERR_STREAM_WRITE_AFTER_END"
    /\ UNCHANGED <<runVars, scriptVars, cliVars, found, sink, restVars>>

\* the navigations and clicks the step at a program point issues: the call, its
\* timeout option in ms when one is given, and whether its rejection is caught where
\* the call is made
BrowserCalls(at) ==
    LET goto == [call |-> "page.goto", caught |-> FALSE]
        performClickCall == [call |-> "locator.click", timeout |-> 3000, caught |-> TRUE]
        shortClick == [call |-> "locator.click", timeout |-> 2000, caught |-> TRUE]
    IN  CASE at \in {"n_goto", "f_goto", "l_goto", "e_goto"} -> {goto}
          [] at = "e_goto404" -> {[call |-> "page.goto", timeout |-> 5000, caught |-> TRUE]}
          [] at = "n_action" -> {shortClick, performClickCall}
          [] at = "rage_loop" ->
                {[call |-> "locator.click", timeout |-> 1000, caught |-> TRUE]}
          [] at \in {"f_clicks", "l_clickA", "l_clickB", "l_uturn", "e_retry"} ->
                {performClickCall}
          [] at \in {"l_refocus1", "l_refocus2"} -> {performClickCall, shortClick}
          [] at = "e_next" -> {[call |-> "locator.click", caught |-> FALSE]}
          [] at = "e_loop" -> {[call |-> "page.click", caught |-> TRUE], performClickCall}
          [] OTHER -> {}

----------------------------------------------------------------------------
(* The run: runSessions(config) with the default scenario mix *)

Profiles ==
    {[click |-> c, snapshots |-> "ok", events |-> "none", page |-> "rich"] :
        c \in {"static", "navigates", "fails"}}
        \cup {[click |-> "static", snapshots |-> "ok", events |-> "any", page |-> "plain"]}

Init ==
    /\ pc = "rs_launch"
    /\ config \in [sessions : 0 .. MaxSessions, scenarioMix : {DefaultMix}]
    /\ env \in Profiles
    /\ browser = "none"
    /\ i = 0
    /\ started = 0
    /\ scenario = Undefined
    /\ ctxOpen = {}
    /\ logger = "none"
    /\ log = <<>>
    /\ err = NoErr
    /\ threw = {}
    /\ page = BlankPage
    /\ elements = <<>>
    /\ loc = NoLoc
    /\ rage = NoRage
    /\ verdict = NoVerdict
    /\ onThrow = "none"
    /\ args = NoParse
    /\ picked = NoPick
    /\ ids = <<>>
    /\ sdk = NoSdk
    /\ server = NoServer
    /\ found = NoFound
    /\ passive = NoPassive
    /\ sink = NoSink

Next ==
    \/ Launch \/ LoopTest \/ NewContext \/ NewPage \/ RunScenario
    \/ SessionCatch \/ SessionFinally \/ ContextClose \/ SessionDelay \/ BrowserClose
    \/ NormalGoto \/ NormalFind \/ NormalLoop \/ NormalAction \/ NormalScroll
    \/ FrustratedGoto \/ FrustratedShake \/ FrustratedFind \/ RageRepeat \/ RageReturn
    \/ FrustratedScroll \/ FrustratedClicks
    \/ LostGoto \/ LostFind \/ LostClickA \/ LostClickB \/ LostUTurn
    \/ LostRefocus1 \/ LostRefocus2
    \/ ErrorGoto404 \/ ErrorGoto \/ ErrorFind \/ ErrorNext \/ ErrorLoop \/ ErrorRetry
    \/ PassiveEvent

Spec == Init /\ [][Next]_vars

----------------------------------------------------------------------------
(* The primitives on their own: one call of a primitive of behaviors, on any *)
(* page, with every click and every snapshot free to fail                   *)

InitBehaviors ==
    /\ pc = "h_call"
    /\ config = [sessions |-> 0, scenarioMix |-> DefaultMix]
    /\ env \in [click : {"any", "fails"}, snapshots : {"may_fail"}, events : {"none"},
                page : {"rich"}]
    /\ browser = "open"
    /\ i = 0
    /\ started = 0
    /\ scenario = Undefined
    /\ ctxOpen = {1}
    /\ logger = "open"
    /\ log = <<>>
    /\ err = NoErr
    /\ threw = {}
    /\ page \in [url : Urls, body : Bodies]
    /\ elements = <<>>
    /\ loc = NoLoc
    /\ rage = NoRage
    /\ verdict = NoVerdict
    /\ onThrow = "h_raised"
    /\ args = NoParse
    /\ picked = NoPick
    /\ ids = <<>>
    /\ sdk = NoSdk
    /\ server = NoServer
    /\ found = NoFound
    /\ passive = NoPassive
    /\ sink = NoSink

Called(name, el) == loc' = [NoLoc EXCEPT !.call = name, !.el = el]

CallRageClick ==
    /\ pc = "h_call" /\ Script
    /\ \E el \in {ElemLink, ElemBack}, clickCount \in 0 .. MaxClicks :
          rageClickCall(el, clickCount, "h_returned") /\ Called("rageClick", el)
    /\ UNCHANGED <<page, log, verdict, elements>>

CallPerformDeadClick ==
    /\ pc = "h_call" /\ Script
    /\ \E el \in {ElemLink, ElemBack} :
          performDeadClick(el, "h_returned") /\ Called("performDeadClick", el)
    /\ UNCHANGED <<elements, rage>>

CallPerformClick ==
    /\ pc = "h_call" /\ Script
    /\ \E el \in {ElemLink, ElemBack} :
          performClick(el, "lost_user", <<>>, "h_returned") /\ Called("performClick", el)
    /\ UNCHANGED <<elements, rage>>

CallRefocusClick ==
    /\ pc = "h_call" /\ Script
    /\ \E el \in {ElemLink, ElemBack} :
          refocusClick(el, "lost_user", <<>>, "h_returned") /\ Called("refocusClick", el)
    /\ UNCHANGED <<elements, rage>>

NextBehaviors ==
    \/ CallRageClick \/ RageRepeat \/ RageReturn
    \/ CallPerformDeadClick \/ CallPerformClick \/ CallRefocusClick

SpecBehaviors == InitBehaviors /\ [][NextBehaviors]_vars

----------------------------------------------------------------------------
(* The command line: parseArgs, then the draws of selectScenario on its mix *)

Recognized == {"normal", "frustrated", "lost", "error"}
Names == Recognized \cup {"normal_user", "bogus"}
Weights == (0 .. MaxWeight) \cup {-1}

\* mutant: the chain ends in a plain else that stores the weight as error
setWeightFallthrough(mix, name, probability) ==
    IF name = "normal" THEN [mix EXCEPT !.normal = probability]
    ELSE IF name = "frustrated" THEN [mix EXCEPT !.frustrated = probability]
    ELSE IF name = "lost" THEN [mix EXCEPT !.lost = probability]
    ELSE [mix EXCEPT !.error = probability]

\* the if / else-if chain of the forEach callback
setWeight(mix, name, probability) ==
    IF name = "normal" THEN [mix EXCEPT !.normal = probability]
    ELSE IF name = "frustrated" THEN [mix EXCEPT !.frustrated = probability]
    ELSE IF name = "lost" THEN [mix EXCEPT !.lost = probability]
    ELSE IF name = "error" THEN [mix EXCEPT !.error = probability]
    ELSE mix

\* mutant: the weights are handed over without the division
normalizeSkipped(mix) ==
    [normal |-> mix.normal, frustrated |-> mix.frustrated, lost |-> mix.lost,
     error |-> mix.error, den |-> 1]

\* "Normalize to sum to 1.0": each weight w becomes w / sum, kept as w over den = sum
normalize(mix) ==
    LET sum == mix.normal + mix.frustrated + mix.lost + mix.error
    IN  [normal |-> mix.normal, frustrated |-> mix.frustrated, lost |-> mix.lost,
         error |-> mix.error, den |-> IF sum > 0 THEN sum ELSE 1]

InitMix ==
    /\ pc = "pa_args"
    /\ config = [sessions |-> DefaultSessions, scenarioMix |-> DefaultMix]
    /\ env = [click |-> "static", snapshots |-> "ok", events |-> "none", page |-> "rich"]
    /\ browser = "none"
    /\ i = 0
    /\ started = 0
    /\ scenario = Undefined
    /\ ctxOpen = {}
    /\ logger = "none"
    /\ log = <<>>
    /\ err = NoErr
    /\ threw = {}
    /\ page = BlankPage
    /\ elements = <<>>
    /\ loc = NoLoc
    /\ rage = NoRage
    /\ verdict = NoVerdict
    /\ onThrow = "none"
    /\ args = NoParse
    /\ picked = NoPick
    /\ ids = <<>>
    /\ sdk = NoSdk
    /\ server = NoServer
    /\ found = NoFound
    /\ passive = NoPassive
    /\ sink = NoSink

Cli == UNCHANGED <<browser, i, started, scenario, ctxOpen, logger, log, err, threw,
                   page, elements, loc, rage, verdict, onThrow, env, otherVars>>

\* the loop over process.argv: --scenarioMix is absent, or its value is split
ParseArgs ==
    /\ pc = "pa_args" /\ Cli
    /\ pc' \in {"pa_return", "pa_parts"}
    /\ UNCHANGED <<config, args, picked>>

\* one call of the forEach callback on the next part of the value
ParsePart ==
    /\ pc = "pa_parts" /\ Cli
    /\ args.k < MaxPairs
    /\ \E name \in Names, probability \in Weights :
          args' = [k |-> args.k + 1, raw |-> setWeight(args.raw, name, probability),
                   lastName |-> name, prev |-> args.raw]
    /\ UNCHANGED <<pc, config, picked>>

\* after the last part: normalization and config.scenarioMix = mix
ParseNormalize ==
    /\ pc = "pa_parts" /\ Cli
    /\ args.k >= 1
    /\ config' = [config EXCEPT !.scenarioMix = normalize(args.raw)]
    /\ pc' = "pa_return"
    /\ UNCHANGED <<args, picked>>

\* a call selectScenario(config.scenarioMix) of the session loop
SelectDraw ==
    /\ pc = "pa_return" /\ Cli
    /\ \E rand \in Draws(config.scenarioMix) :
          picked' = [made |-> TRUE, mix |-> config.scenarioMix, rand |-> rand,
                     result |-> selectScenario(config.scenarioMix, rand)]
    /\ UNCHANGED <<pc, config, args>>

NextMix == ParseArgs \/ ParsePart \/ ParseNormalize \/ SelectDraw

SpecMix == InitMix /\ [][NextMix]_vars

----------------------------------------------------------------------------
(* helpers: findClickableElements *)

\* the selectors of the literal list that match a node of the model's documents,
\* in the order of the list
selectors == <<"a[href]", "button:not([disabled])", "[tabindex]:not([tabindex=\"-1\"])">>

\* nodes of a document: the selectors they match, visibility, and what the locator reads
NodeHome == [matches |-> {"a[href]"}, visible |-> TRUE, tagName |-> "a",
             textContent |-> "Home", boundingBox |-> <<0, 0, 80, 20>>]
NodeBack == [matches |-> {"button:not([disabled])", "[tabindex]:not([tabindex=\"-1\"])"},
             visible |-> TRUE, tagName |-> "button", textContent |-> " Back ",
             boundingBox |-> <<0, 60, 80, 20>>]
NodeNext == [matches |-> {"button:not([disabled])"}, visible |-> TRUE,
             tagName |-> "button", textContent |-> "Next",
             boundingBox |-> <<100, 60, 80, 20>>]
\* a link drawn exactly over the Back button
NodeOverlay == [matches |-> {"a[href]"}, visible |-> TRUE, tagName |-> "a",
                textContent |-> "Go", boundingBox |-> <<0, 60, 80, 20>>]
NodeHidden == [matches |-> {"button:not([disabled])"}, visible |-> FALSE,
               tagName |-> "button", textContent |-> "Hidden", boundingBox |-> <<>>]
NodePool == <<NodeHome, NodeBack, NodeNext, NodeOverlay, NodeHidden>>

\* the documents explored: the nodes of the pool that are present, in document order
Documents ==
    {SelectSeq(NodePool, LAMBDA n : n \in present) :
        present \in SUBSET {NodePool[j] : j \in 1 .. Len(NodePool)}}

\* String.prototype.trim on the texts of the model
trim(str) == IF str = " Back " THEN "Back" ELSE str

\* await page.locator(selector).all(): the matching nodes in document order
all(dom, selector) == SelectSeq(dom, LAMBDA n : selector \in n.matches)

\* the ElementInfo pushed for a visible node with a bounding box
Candidate(selector, n) ==
    [selector |-> selector, tagName |-> n.tagName, text |-> trim(n.textContent),
     boundingBox |-> n.boundingBox]

\* the inner loop over the first `count` locators: what it pushes
RECURSIVE pushed(_, _, _)
pushed(selector, locators, count) ==
    IF count = 0 THEN <<>>
    ELSE LET n == locators[count]
             before == pushed(selector, locators, count - 1)
         IN  IF n.visible /\ n.boundingBox # <<>>
             THEN Append(before, Candidate(selector, n))
             ELSE before

\* the key of the seen set: `${x},${y},${width},${height}`, one string per box
boxKey(boundingBox) == boundingBox

\* the loop "Remove duplicates based on position"
RECURSIVE dedupe(_, _, _)
dedupe(els, seen, unique) ==
    IF els = <<>> THEN unique
    ELSE LET el == Head(els)
             key == boxKey(el.boundingBox)
         IN  IF el.boundingBox # <<>> /\ key \notin seen
             THEN dedupe(Tail(els), seen \cup {key}, Append(unique, el))
             ELSE dedupe(Tail(els), seen, unique)

\* mutant: every candidate with a bounding box is kept
uniqueElementsAll(els) == SelectSeq(els, LAMBDA el : el.boundingBox # <<>>)

uniqueElements(els) == dedupe(els, {}, <<>>)

\* one iteration of the loop over the selectors: the probe of a selector raises after
\* `read` of its locators were read (caught, ignored) or reads them all; after the
\* last selector, the duplicates are removed and the list is returned
FindProbe ==
    /\ pc = "fc_probe"
    /\ found.s < Len(selectors)
    /\ LET selector == selectors[found.s + 1]
           locators == all(found.dom, selector)
           last == found.s + 1 = Len(selectors)
       IN  \E raises \in BOOLEAN :
           \E read \in IF raises
                       THEN 0 .. (IF Len(locators) = 0 THEN 0 ELSE Len(locators) - 1)
                       ELSE {Len(locators)} :
              LET els == found.elements \o pushed(selector, locators, read)
              IN  /\ found' = [found EXCEPT
                          !.s = @ + 1,
                          !.elements = els,
                          !.raised = IF raises THEN @ \cup {selector} ELSE @,
                          !.result = IF last THEN uniqueElements(els) ELSE @,
                          !.done = last]
                  /\ pc' = IF last THEN "fc_returned" ELSE "fc_probe"
    /\ UNCHANGED <<config, browser, i, started, scenario, ctxOpen, logger, log, err,
                   threw, page, elements, loc, rage, verdict, onThrow, env, args,
                   picked, passive, sink, restVars>>

\* page.locator(selector).first(): the first node of the document that matches,
\* visible or not
first(dom, selector) ==
    LET locators == all(dom, selector)
    IN  IF locators = <<>> THEN NoTarget ELSE Head(locators)

\* lostUserScenario on the returned list: the early return, or the choice of A and B
LostPick ==
    /\ pc = "fc_returned"
    /\ IF Len(found.result) < 2
       THEN /\ pc' = "fc_skipped"
            /\ loc' = loc
       ELSE /\ pc' = "fc_picked"
            /\ \E elementA \in randomChoice(found.result) :
               \E elementB \in randomChoice(Without(found.result, elementA)) :
                  loc' = [NoLoc EXCEPT !.elA = elementA, !.elB = elementB,
                                       !.urlBefore = page.url]
    /\ UNCHANGED <<config, browser, i, started, scenario, ctxOpen, logger, log, err,
                   threw, page, elements, rage, verdict, onThrow, env, args,
                   picked, found, passive, sink, restVars>>

\* findClickableElements called on a document
InitDiscovery ==
    /\ pc = "fc_probe"
    /\ found \in [dom : Documents, s : {0}, elements : {<<>>}, raised : {{}},
                  result : {<<>>}, done : {FALSE}]
    /\ config = [sessions |-> 0, scenarioMix |-> DefaultMix]
    /\ env = [click |-> "static", snapshots |-> "ok", events |-> "none", page |-> "rich"]
    /\ browser = "open"
    /\ i = 0
    /\ started = 0
    /\ scenario = Undefined
    /\ ctxOpen = {1}
    /\ logger = "open"
    /\ log = <<>>
    /\ err = NoErr
    /\ threw = {}
    /\ page = TradePage
    /\ elements = <<>>
    /\ loc = NoLoc
    /\ rage = NoRage
    /\ verdict = NoVerdict
    /\ onThrow = "none"
    /\ args = NoParse
    /\ picked = NoPick
    /\ ids = <<>>
    /\ sdk = NoSdk
    /\ server = NoServer
    /\ passive = NoPassive
    /\ sink = NoSink

NextDiscovery == FindProbe \/ LostPick

SpecDiscovery == InitDiscovery /\ [][NextDiscovery]_vars

----------------------------------------------------------------------------
(* logger.ts on its own: the loggers of consecutive sessions on one output file. *)
(* A line is <<session, number>>.  Each SessionLogger has its own write stream *)
(* (createWriteStream with flags 'a'); stream.write queues the line, the file   *)
(* system appends queued lines later, and stream.end() does not wait for them.  *)

\* new SessionLogger(sessionId, outputFile), once the previous session has ended
SinkNewLogger ==
    /\ pc = "sk_between"
    /\ Len(sink.streams) < MaxSessions
    /\ sink' = [sink EXCEPT !.streams = Append(@, [state |-> "open", queue |-> <<>>]),
                            !.emitted = 0]
    /\ pc' = "sk_session"
    /\ UNCHANGED <<config, browser, i, started, scenario, ctxOpen, logger, log, err,
                   threw, page, elements, loc, rage, verdict, onThrow, env, args,
                   picked, found, passive, restVars>>

\* logger.log(event): stream.write(line)
SinkLog ==
    /\ pc = "sk_session"
    /\ sink.emitted < MaxLines
    /\ LET k == Len(sink.streams)
       IN  sink' = [sink EXCEPT !.streams[k].queue = Append(@, <<k, sink.emitted + 1>>),
                                !.emitted = @ + 1]
    /\ UNCHANGED <<pc, config, browser, i, started, scenario, ctxOpen, logger, log, err,
                   threw, page, elements, loc, rage, verdict, onThrow, env, args,
                   picked, found, passive, restVars>>

\* logger.close(): stream.end(); then context.close() and the delay between sessions
SinkClose ==
    /\ pc = "sk_session"
    /\ sink' = [sink EXCEPT !.streams[Len(sink.streams)].state = "ended"]
    /\ pc' = "sk_between"
    /\ UNCHANGED <<config, browser, i, started, scenario, ctxOpen, logger, log, err,
                   threw, page, elements, loc, rage, verdict, onThrow, env, args,
                   picked, found, passive, restVars>>

\* the file system completes the oldest pending write of a stream
SinkFlush ==
    /\ pc \in {"sk_session", "sk_between"}
    /\ \E k \in 1 .. Len(sink.streams) :
          /\ sink.streams[k].queue # <<>>
          /\ sink' = [sink EXCEPT !.file = Append(@, Head(sink.streams[k].queue)),
                                  !.streams[k].queue = Tail(@)]
    /\ UNCHANGED <<pc, config, browser, i, started, scenario, ctxOpen, logger, log, err,
                   threw, page, elements, loc, rage, verdict, onThrow, env, args,
                   picked, found, passive, restVars>>

InitSink ==
    /\ pc = "sk_between"
    /\ sink = NoSink
    /\ config = [sessions |-> MaxSessions, scenarioMix |-> DefaultMix]
    /\ env = [click |-> "static", snapshots |-> "ok", events |-> "none", page |-> "rich"]
    /\ browser = "open"
    /\ i = 0
    /\ started = 0
    /\ scenario = Undefined
    /\ ctxOpen = {}
    /\ logger = "none"
    /\ log = <<>>
    /\ err = NoErr
    /\ threw = {}
    /\ page = BlankPage
    /\ elements = <<>>
    /\ loc = NoLoc
    /\ rage = NoRage
    /\ verdict = NoVerdict
    /\ onThrow = "none"
    /\ args = NoParse
    /\ picked = NoPick
    /\ ids = <<>>
    /\ sdk = NoSdk
    /\ server = NoServer
    /\ found = NoFound
    /\ passive = NoPassive

NextSink == SinkNewLogger \/ SinkLog \/ SinkClose \/ SinkFlush

SpecSink == InitSink /\ [][NextSink]_vars

----------------------------------------------------------------------------
(* runner.ts on its own: the session identifiers of one run *)

\* Number.prototype.toString: the decimal digits of a natural number
DecimalDigits == <<"0", "1", "2", "3", "4", "5", "6", "7", "8", "9">>
RECURSIVE toString(_)
toString(n) ==
    IF n < 10 THEN <<DecimalDigits[n + 1]>>
    ELSE Append(toString(n \div 10), DecimalDigits[(n % 10) + 1])

\* mutant: the identifier is made of the timestamp and the random suffix only
generateSessionIdNoIndex(index, timestamp, random) ==
    <<"session", "_">> \o toString(timestamp) \o <<"_">> \o toString(random)

\* `session_${index}_${timestamp}_${random}`, as its sequence of characters
generateSessionId(index, timestamp, random) ==
    <<"session", "_">> \o toString(index) \o <<"_">> \o toString(timestamp)
        \o <<"_">> \o toString(random)

\* one iteration of the loop of runSessions: runSingleSession(.., i + 1, ..) generates
\* the identifier of its session from Date.now() and Math.random()
IdNext ==
    /\ pc = "id_loop"
    /\ i < config.sessions
    /\ \E timestamp \in 0 .. MaxStamp, random \in 0 .. MaxRandom :
          ids' = Append(ids, generateSessionId(i + 1, timestamp, random))
    /\ i' = i + 1
    /\ started' = started + 1
    /\ UNCHANGED <<pc, config, browser, scenario, ctxOpen, logger, log, err, threw,
                   page, elements, loc, rage, verdict, onThrow, env, args, picked,
                   found, passive, sink, sdk, server>>

InitIds ==
    /\ pc = "id_loop"
    /\ ids = <<>>
    /\ config = [sessions |-> MaxSessions, scenarioMix |-> DefaultMix]
    /\ env = [click |-> "static", snapshots |-> "ok", events |-> "none", page |-> "rich"]
    /\ browser = "open"
    /\ i = 0
    /\ started = 0
    /\ scenario = Undefined
    /\ ctxOpen = {}
    /\ logger = "none"
    /\ log = <<>>
    /\ err = NoErr
    /\ threw = {}
    /\ page = BlankPage
    /\ elements = <<>>
    /\ loc = NoLoc
    /\ rage = NoRage
    /\ verdict = NoVerdict
    /\ onThrow = "none"
    /\ args = NoParse
    /\ picked = NoPick
    /\ found = NoFound
    /\ passive = NoPassive
    /\ sink = NoSink
    /\ sdk = NoSdk
    /\ server = NoServer

NextIds == IdNext

SpecIds == InitIds /\ [][NextIds]_vars

----------------------------------------------------------------------------
(* public/telemetry.js: the client SDK on one page.  Time is performance.now() in *)
(* milliseconds; a DOM event or a timer callback runs its listeners to completion. *)

RAGE_CLICK_THRESHOLD == 3
RAGE_CLICK_WINDOW_MS == 800
IDLE_THRESHOLD_MS == 30000
REFOCUS_WINDOW_MS == 5000
SCROLL_MILESTONES == <<25, 50, 75, 100>>

\* elements of the page
BtnBuy == [tagName |-> "BUTTON", id |-> "buyBtn", name |-> "", ariaLabel |-> "",
           classList |-> <<>>]
BtnPlain == [tagName |-> "BUTTON", id |-> "", name |-> "", ariaLabel |-> "",
             classList |-> <<"btn">>]
InputSymbol == [tagName |-> "INPUT", id |-> "symbol", name |-> "", ariaLabel |-> "",
                classList |-> <<>>]
InputQty == [tagName |-> "INPUT", id |-> "", name |-> "qty", ariaLabel |-> "",
             classList |-> <<>>]
DivNote == [tagName |-> "DIV", id |-> "", name |-> "", ariaLabel |-> "",
            classList |-> <<>>]
PageElements == {BtnBuy, BtnPlain, InputSymbol, InputQty, DivNote}

\* what a user does on the page in the sessions explored: the elements touched, the
\* kinds of DOM event, and the delays between two events
SdkProfiles == {"clicks", "focus", "form", "idle", "init", "scroll"}
Touched(profile) ==
    CASE profile = "clicks" -> {BtnBuy, BtnPlain, InputSymbol}
      [] profile = "focus" -> {InputSymbol, InputQty, DivNote}
      [] profile = "form" -> {InputSymbol, DivNote}
      [] profile = "idle" -> {BtnBuy}
      [] profile = "init" -> {BtnBuy, InputSymbol}
      [] profile = "scroll" -> {}
Kinds(profile) ==
    CASE profile = "clicks" -> {"click"}
      [] profile = "focus" -> {"focusin", "focusout"}
      [] profile = "form" -> {"focusin", "focusout", "submit", "beforeunload"}
      [] profile = "idle" -> {"click", "keydown", "mousemove", "scroll", "submit",
                              "timer"}
      [] profile = "init" -> {"click", "init"}
      [] profile = "scroll" -> {"scroll"}
Delays(profile) ==
    CASE profile = "clicks" -> {300, 500}
      [] profile = "focus" -> {0, 2000, 5000}
      [] profile = "form" -> {1000}
      [] profile = "idle" -> {10000}
      [] profile = "init" -> {500}
      [] profile = "scroll" -> {500}
\* the positions scrolled to: scrollTop, and scrollHeight - clientHeight of the document
\* (0 on a page that cannot scroll; scrollTop exceeds it while the page bounces)
Positions(profile) ==
    IF profile = "idle" THEN {[scrollTop |-> 500, scrollHeight |-> 1000]}
    ELSE {[scrollTop |-> 0, scrollHeight |-> 0]}
             \cup [scrollTop : {250, 600, 1000, 1200}, scrollHeight : {1000}]

\* tagName?.toLowerCase()
tagLower(tagName) ==
    CASE tagName = "BUTTON" -> "button"
      [] tagName = "INPUT" -> "input"
      [] tagName = "SELECT" -> "select"
      [] tagName = "TEXTAREA" -> "textarea"
      [] tagName = "DIV" -> "div"
      [] OTHER -> "unknown"

\* _getElementKey(element), as the pieces of the string it builds
getElementKey(element) ==
    IF element.id # "" THEN <<"#", element.id>>
    ELSE IF element.name # "" THEN <<"[name=\"", element.name, "\"]">>
    ELSE IF Len(element.classList) = 0 THEN <<tagLower(element.tagName)>>
    ELSE IF Len(element.classList) = 1
         THEN <<tagLower(element.tagName), ".", element.classList[1]>>
         ELSE <<tagLower(element.tagName), ".", element.classList[1], ".",
                element.classList[2]>>

ElementKeys == {getElementKey(e) : e \in PageElements}

\* e.target.id || e.target.name || e.target.getAttribute('aria-label') || ''
fieldId(target) ==
    IF target.id # "" THEN target.id
    ELSE IF target.name # "" THEN target.name
    ELSE target.ariaLabel

\* _buildEvent: id is promoted from the metadata to elementId
buildEvent(t, eventType, metadata) ==
    [eventType |-> eventType,
     timestamp |-> t.now,
     sessionId |-> t.sessionId,
     pageRoute |-> t.pageRoute,
     elementId |-> IF "id" \in DOMAIN metadata /\ metadata.id # ""
                   THEN metadata.id ELSE Undefined,
     metadata |-> [k \in DOMAIN metadata \ {"id"} |-> metadata[k]]]

\* emit(eventType, metadata): one POST to /api/telemetry
emit(t, eventType, metadata) ==
    [t EXCEPT !.sent = Append(@, buildEvent(t, eventType, metadata))]

\* sendBeacon(eventType, metadata): one beacon, or emit where sendBeacon is missing
sendBeacon(t, eventType, metadata) ==
    [t EXCEPT !.sent = Append(@, buildEvent(t, eventType, metadata))]

\* mutant: a click exactly 800 ms old still counts
recentClicksInclusive(timestamps, now) ==
    SelectSeq(timestamps, LAMBDA ts : now - ts <= RAGE_CLICK_WINDOW_MS)

\* timestamps.filter(t => now - t < RAGE_CLICK_WINDOW_MS)
recentClicks(timestamps, now) ==
    SelectSeq(timestamps, LAMBDA ts : now - ts < RAGE_CLICK_WINDOW_MS)

\* the capturing click listener: rage click detection, then the click event
onClick(t, target) ==
    LET tagName == tagLower(target.tagName)
    IN  IF tagName \in {"input", "select", "textarea"} THEN t
        ELSE LET elementKey == getElementKey(target)
                 recent == Append(recentClicks(t.clickHistory[elementKey], t.now), t.now)
                 t1 == [t EXCEPT !.clickHistory[elementKey] = recent]
                 t2 == IF Len(recent) >= RAGE_CLICK_THRESHOLD
                       THEN [emit(t1, "rage_click",
                                  [element |-> elementKey, clickCount |-> Len(recent),
                                   tag |-> tagName, id |-> target.id])
                                EXCEPT !.clickHistory[elementKey] = <<>>]
                       ELSE t1
             IN  emit(t2, "click", [tag |-> tagName, id |-> fieldId(target)])

\* mutant: a milestone is emitted by every scroll at or beyond it
onScrollFromAgain(t, at, j) ==
    LET reached == {k \in 1 .. Len(SCROLL_MILESTONES) :
                       at.scrollTop * 100 >= SCROLL_MILESTONES[k] * at.scrollHeight}
    IN  [t EXCEPT !.reachedMilestones = @ \cup {SCROLL_MILESTONES[k] : k \in reached},
                  !.sent = @ \o [k \in 1 .. Cardinality(reached) |->
                                    buildEvent(t, "scroll_depth",
                                               [pct |-> SCROLL_MILESTONES[k]])]]

\* the loop of onScroll over SCROLL_MILESTONES from its j-th element; the milestones
\* are in hundredths, and pct >= m is scrollTop / scrollHeight >= m / 100 (pct is
\* capped at 1, the largest milestone)
RECURSIVE onScrollFrom(_, _, _)
onScrollFrom(t, at, j) ==
    IF j > Len(SCROLL_MILESTONES) THEN t
    ELSE LET m == SCROLL_MILESTONES[j]
         IN  IF at.scrollTop * 100 >= m * at.scrollHeight /\ m \notin t.reachedMilestones
             THEN onScrollFrom(emit([t EXCEPT !.reachedMilestones = @ \cup {m}],
                                    "scroll_depth", [pct |-> m]), at, j + 1)
             ELSE onScrollFrom(t, at, j + 1)

\* the scroll listener onScroll at a scroll position
onScroll(t, at) == IF at.scrollHeight <= 0 THEN t ELSE onScrollFrom(t, at, 1)

\* mutant: the pending timer is not cleared
resetIdleTimerNoClear(t) ==
    [t EXCEPT !.lastActivityTs = t.now,
              !.timers = @ \cup {t.now + IDLE_THRESHOLD_MS},
              !.idleTimer = t.now + IDLE_THRESHOLD_MS]

\* resetIdleTimer: clearTimeout(idleTimer), then setTimeout(..., IDLE_THRESHOLD_MS);
\* a timer is the time at which it is due
resetIdleTimer(t) ==
    [t EXCEPT !.lastActivityTs = t.now,
              !.timers = (@ \ {t.idleTimer}) \cup {t.now + IDLE_THRESHOLD_MS},
              !.idleTimer = t.now + IDLE_THRESHOLD_MS]

\* the capturing focusin listeners: refocus detection, then form interaction
onFocusIn(t, target) ==
    LET id == fieldId(target)
        t1 == IF id = "" THEN t
              ELSE LET t0 == IF t.lastFocusedId = id
                                  /\ t.now - t.lastBlurTs < REFOCUS_WINDOW_MS
                             THEN emit(t, "refocus", [field |-> id,
                                       msSinceBlur |-> t.now - t.lastBlurTs])
                             ELSE t
                   IN  [t0 EXCEPT !.lastFocusedId = id]
    IN  IF target.tagName \in {"INPUT", "TEXTAREA", "SELECT"}
        THEN [t1 EXCEPT !.formInteracted = TRUE]
        ELSE t1

\* the capturing focusout listener
onFocusOut(t, target) ==
    IF fieldId(target) # "" THEN [t EXCEPT !.lastBlurTs = t.now] ELSE t

\* the capturing submit listener
onSubmit(t) == [t EXCEPT !.formSubmitted = TRUE]

\* mutant: a submitted form is reported abandoned too
isAbandonedIgnoringSubmit(formInteracted, formSubmitted) == formInteracted

\* the condition of the beforeunload listener
isAbandoned(formInteracted, formSubmitted) == formInteracted /\ ~formSubmitted

\* the beforeunload listener
onBeforeUnload(t) ==
    LET dwellMs == t.now - t.pageStartTime
        t1 == sendBeacon(t, "page_view_end", [dwellMs |-> dwellMs])
    IN  IF isAbandoned(t.formInteracted, t.formSubmitted)
        THEN sendBeacon(t1, "form_abandonment",
                        [pageRoute |-> t.pageRoute, dwellMs |-> dwellMs])
        ELSE t1

\* the page before Telemetry.init: the script is loaded, nothing is attached;
\* sessionId is the item of sessionStorage, empty when there is none, and stored
\* keeps the item the page was loaded with
LoadedPage(profile) ==
    [attached |-> FALSE, listeners |-> 0, profile |-> profile, now |-> 0, steps |-> 0,
     inits |-> 0, pageRoute |-> Undefined, pageStartTime |-> 0, sessionId |-> <<>>,
     stored |-> <<>>,
     clickHistory |-> [k \in ElementKeys |-> <<>>],
     reachedMilestones |-> {}, timers |-> {}, idleTimer |-> -1, lastActivityTs |-> 0,
     lastFocusedId |-> Undefined, lastBlurTs |-> 0,
     formInteracted |-> FALSE, formSubmitted |-> FALSE,
     focused |-> NoTarget, unloaded |-> FALSE, sent |-> <<>>, trace |-> <<>>]

\* mutant: the listeners are registered by every call
attachBehavioralCaptureAgain(t) ==
    resetIdleTimer([t EXCEPT !.attached = TRUE, !.listeners = @ + 1])

\* attachBehavioralCapture: the listeners are registered once; resetIdleTimer()
attachBehavioralCapture(t) ==
    IF t.attached THEN t
    ELSE resetIdleTimer([t EXCEPT !.attached = TRUE, !.listeners = @ + 1])

\* the click listeners registered on document, each run once for a click
RECURSIVE clickListeners(_, _, _)
clickListeners(t, target, n) ==
    IF n = 0 THEN t ELSE clickListeners(onClick(t, target), target, n - 1)

\* what the other actions of the module leave alone
SdkFrame ==
    UNCHANGED <<pc, config, browser, i, started, scenario, ctxOpen, logger, log, err,
                threw, page, elements, loc, rage, verdict, onThrow, env, args, picked,
                found, passive, sink, ids, server>>

\* no timer is due before the time now + d
At(d) == \A due \in sdk.timers : sdk.now + d <= due

\* the DOM event `kind` on `target` is recorded with the number of events sent so far
Traced(t, kind, target) ==
    [t EXCEPT !.steps = @ + 1,
              !.trace = Append(@, [kind |-> kind, target |-> target, now |-> t.now,
                                   sent |-> Len(t.sent)])]

CanStep(kind) ==
    /\ pc = "sdk_page"
    /\ sdk.attached
    /\ ~sdk.unloaded
    /\ sdk.steps < MaxSdkSteps
    /\ kind \in Kinds(sdk.profile)

\* Telemetry.init(pageName, options)
SdkInit ==
    /\ pc = "sdk_page"
    /\ sdk.inits = 0 \/ CanStep("init")
    /\ \E random \in 0 .. 1, d \in Delays(sdk.profile) :
          /\ At(d)
          /\ LET t0 == IF sdk.inits = 0 THEN sdk
                       ELSE [sdk EXCEPT !.now = @ + d, !.steps = @ + 1]
                 t1 == [t0 EXCEPT !.pageRoute = "trade", !.pageStartTime = t0.now,
                                  !.inits = @ + 1,
                                  !.sessionId = IF @ = <<>>
                                                THEN <<"S", t0.now, "-", random>> ELSE @]
                 t2 == emit(attachBehavioralCapture(t1), "page_view", [none |-> TRUE])
             IN  sdk' = [t2 EXCEPT !.trace = Append(@, [kind |-> "init",
                                                        target |-> NoTarget,
                                                        now |-> t2.now,
                                                        sent |-> Len(t2.sent)])]
    /\ SdkFrame

\* a click is dispatched: the capturing listener, then resetIdleTimer on the way up
SdkClick ==
    /\ CanStep("click")
    /\ \E d \in Delays(sdk.profile), target \in Touched(sdk.profile) :
          /\ At(d)
          /\ LET t == [sdk EXCEPT !.now = @ + d]
             IN  sdk' = Traced(resetIdleTimer(clickListeners(t, target, t.listeners)),
                               "click", target)
    /\ SdkFrame

\* a keydown or a mousemove is dispatched
SdkInput ==
    /\ \E kind \in {"keydown", "mousemove"}, d \in Delays(sdk.profile) :
          /\ CanStep(kind)
          /\ At(d)
          /\ LET t == [sdk EXCEPT !.now = @ + d]
             IN  sdk' = Traced(resetIdleTimer(t), kind, NoTarget)
    /\ SdkFrame

\* the window is scrolled to pct percent of its scroll height
SdkScroll ==
    /\ CanStep("scroll")
    /\ \E d \in Delays(sdk.profile), at \in Positions(sdk.profile) :
          /\ At(d)
          /\ LET t == [sdk EXCEPT !.now = @ + d]
                 u == resetIdleTimer(onScroll(t, at))
             IN  sdk' = [u EXCEPT !.steps = @ + 1,
                                  !.trace = Append(@, [kind |-> "scroll",
                                                       target |-> NoTarget, now |-> u.now,
                                                       sent |-> Len(u.sent), at |-> at])]
    /\ SdkFrame

\* an element of the page receives focus
SdkFocusIn ==
    /\ CanStep("focusin")
    /\ sdk.focused = NoTarget
    /\ \E d \in Delays(sdk.profile), target \in Touched(sdk.profile) :
          /\ At(d)
          /\ LET t == [sdk EXCEPT !.now = @ + d, !.focused = target]
             IN  sdk' = Traced(onFocusIn(t, target), "focusin", target)
    /\ SdkFrame

\* the focused element loses focus
SdkFocusOut ==
    /\ CanStep("focusout")
    /\ sdk.focused # NoTarget
    /\ \E d \in Delays(sdk.profile) :
          /\ At(d)
          /\ LET t == [sdk EXCEPT !.now = @ + d, !.focused = NoTarget]
             IN  sdk' = Traced(onFocusOut(t, sdk.focused), "focusout", sdk.focused)
    /\ SdkFrame

\* a form of the page is submitted
SdkSubmit ==
    /\ CanStep("submit")
    /\ \E d \in Delays(sdk.profile) :
          /\ At(d)
          /\ LET t == [sdk EXCEPT !.now = @ + d]
             IN  sdk' = Traced(onSubmit(t), "submit", NoTarget)
    /\ SdkFrame

\* the page is left
SdkBeforeUnload ==
    /\ CanStep("beforeunload")
    /\ \E d \in Delays(sdk.profile) :
          /\ At(d)
          /\ LET t == [sdk EXCEPT !.now = @ + d, !.unloaded = TRUE]
             IN  sdk' = Traced(onBeforeUnload(t), "beforeunload", NoTarget)
    /\ SdkFrame

\* the earliest pending timer is due: the callback of resetIdleTimer emits idle_time
SdkIdleFire ==
    /\ CanStep("timer")
    /\ \E due \in sdk.timers :
          /\ \A other \in sdk.timers : due <= other
          /\ LET t == [sdk EXCEPT !.now = due, !.timers = @ \ {due}]
             IN  sdk' = Traced(emit(t, "idle_time", [ms |-> due - t.lastActivityTs]),
                               "timer", NoTarget)
    /\ SdkFrame

InitSdk ==
    /\ pc = "sdk_page"
    /\ sdk \in {LoadedPage(profile) : profile \in SdkProfiles}
              \cup {[LoadedPage("init") EXCEPT !.sessionId = <<"S", 0, "-", 1>>,
                                               !.stored = <<"S", 0, "-", 1>>,
                                               !.now = 500]}
    /\ config = [sessions |-> 0, scenarioMix |-> DefaultMix]
    /\ env = [click |-> "static", snapshots |-> "ok", events |-> "none", page |-> "rich"]
    /\ browser = "none"
    /\ i = 0
    /\ started = 0
    /\ scenario = Undefined
    /\ ctxOpen = {}
    /\ logger = "none"
    /\ log = <<>>
    /\ err = NoErr
    /\ threw = {}
    /\ page = BlankPage
    /\ elements = <<>>
    /\ loc = NoLoc
    /\ rage = NoRage
    /\ verdict = NoVerdict
    /\ onThrow = "none"
    /\ args = NoParse
    /\ picked = NoPick
    /\ found = NoFound
    /\ passive = NoPassive
    /\ sink = NoSink
    /\ ids = <<>>
    /\ server = NoServer

NextSdk ==
    \/ SdkInit \/ SdkClick \/ SdkInput \/ SdkScroll \/ SdkFocusIn \/ SdkFocusOut
    \/ SdkSubmit \/ SdkBeforeUnload \/ SdkIdleFire

SpecSdk == InitSdk /\ [][NextSdk]_vars

----------------------------------------------------------------------------
(* server.js: the ingestion server.  POST /api/telemetry builds the log entry and   *)
(* hands it to fs.appendFile; the callback answers when the append is over.         *)

\* new Date().toISOString() at the instant ms
toISOString(ms) == <<"T">> \o toString(ms)

\* { ...a, ...b }: the properties of b replace those of a
spread(a, b) ==
    [k \in DOMAIN a \cup DOMAIN b |-> IF k \in DOMAIN b THEN b[k] ELSE a[k]]

\* the JSON bodies posted: events of the SDK, and one that names serverReceivedAt itself
RequestBodies ==
    {[eventType |-> "click", pageRoute |-> "trade"],
     [eventType |-> "page_view", pageRoute |-> "trade", timestamp |-> toISOString(0)],
     [eventType |-> "click", pageRoute |-> "trade", serverReceivedAt |-> toISOString(0)]}

\* the log entry of the handler for the body eventData received at the instant ms
logEntry(ms, eventData) == spread([serverReceivedAt |-> toISOString(ms)], eventData)

\* SessionLogger.log: the entry serialized for an event, written at the instant ms by
\* the logger of the session sessionId
EventLog(ms, sessionId, event) ==
    spread([ts |-> toISOString(ms), session_id |-> sessionId], event)

\* the process after the routes are registered
StartedServer ==
    [listening |-> FALSE, clock |-> 1, requests |-> 0, pending |-> {}, file |-> <<>>,
     responses |-> <<>>, received |-> <<>>]

ServerFrame ==
    UNCHANGED <<pc, config, browser, i, started, scenario, ctxOpen, logger, log, err,
                threw, page, elements, loc, rage, verdict, onThrow, env, args, picked,
                found, passive, sink, ids, sdk>>

\* app.listen(PORT, ...)
ServerListen ==
    /\ pc = "server"
    /\ ~server.listening
    /\ server' = [server EXCEPT !.listening = TRUE]
    /\ ServerFrame

\* a millisecond passes
ServerTick ==
    /\ pc = "server"
    /\ server.listening
    /\ server.clock <= server.requests
    /\ server' = [server EXCEPT !.clock = @ + 1]
    /\ ServerFrame

\* app.post('/api/telemetry'): the handler up to the call of fs.appendFile
ServerPost ==
    /\ pc = "server"
    /\ server.listening
    /\ server.requests < MaxRequests
    /\ \E eventData \in RequestBodies :
          LET id == server.requests + 1
          IN  server' = [server EXCEPT
                  !.requests = id,
                  !.received = Append(@, [at |-> server.clock, body |-> eventData]),
                  !.pending = @ \cup {[id |-> id,
                                       entry |-> logEntry(server.clock, eventData)]}]
    /\ ServerFrame

\* the callback of fs.appendFile, after the line was appended or the append failed
ServerAppendDone ==
    /\ pc = "server"
    /\ \E p \in server.pending, failed \in BOOLEAN :
          server' = [server EXCEPT
              !.pending = @ \ {p},
              !.file = IF failed THEN @ ELSE Append(@, [id |-> p.id, entry |-> p.entry]),
              !.responses = Append(@, IF failed
                                      THEN [id |-> p.id, code |-> 500, status |-> "error"]
                                      ELSE [id |-> p.id, code |-> 200,
                                            status |-> "success"])]
    /\ ServerFrame

InitServer ==
    /\ pc = "server"
    /\ server = StartedServer
    /\ config = [sessions |-> 0, scenarioMix |-> DefaultMix]
    /\ env = [click |-> "static", snapshots |-> "ok", events |-> "none", page |-> "rich"]
    /\ browser = "none"
    /\ i = 0
    /\ started = 0
    /\ scenario = Undefined
    /\ ctxOpen = {}
    /\ logger = "none"
    /\ log = <<>>
    /\ err = NoErr
    /\ threw = {}
    /\ page = BlankPage
    /\ elements = <<>>
    /\ loc = NoLoc
    /\ rage = NoRage
    /\ verdict = NoVerdict
    /\ onThrow = "none"
    /\ args = NoParse
    /\ picked = NoPick
    /\ found = NoFound
    /\ passive = NoPassive
    /\ sink = NoSink
    /\ ids = <<>>
    /\ sdk = NoSdk

NextServer == ServerListen \/ ServerTick \/ ServerPost \/ ServerAppendDone

SpecServer == InitServer /\ [][NextServer]_vars

----------------------------------------------------------------------------
(* Properties *)

Last(l) == l[Len(l)]
Ended == pc \in {"rs_done", "rs_rejected"}
RageClicks == SelectSeq(log, LAMBDA r : r.event_type = "rage_click")

\* C1: when a script has returned or its exception was caught (the session's log is
\* complete), the log holds exactly one session_start, first, and exactly one
\* session_end, last.
C1_OneStartOneEnd ==
    pc = "ss_finally" =>
        /\ Len(log) >= 2
        /\ log[1].event_type = "session_start"
        /\ Last(log).event_type = "session_end"
        /\ Count(log, "session_start") = 1
        /\ Count(log, "session_end") = 1

\* C2: when the script of session i raised, the session's log ends with a session_end
\* record carrying a non-empty error message and stack, and the run goes on to call
\* runSingleSession for every remaining session.
C2_ScriptErrorCaughtRunContinues ==
    /\ (pc = "ss_finally" /\ (i + 1) \in threw) =>
            /\ Last(log).event_type = "session_end"
            /\ Last(log).metadata.error \notin {"", NoErr}
            /\ Last(log).metadata.stack \notin {"", NoErr}
            /\ err = NoErr
    /\ (Ended /\ threw # {}) => started = config.sessions

\* C3: once the browser has launched, runSessions is never rejected and ends having
\* called runSingleSession exactly config.sessions times.
C3_BatchNeverAborted ==
    browser # "none" =>
        /\ pc # "rs_rejected"
        /\ pc = "rs_done" => started = config.sessions

\* C4: at most one context is open at any time, it is the current session's; when
\* the next session's context is about to be allocated every context is closed and
\* the previous logger is closed; no context is open when runSessions has ended.
C4_ContextClosedBeforeNext ==
    /\ Cardinality(ctxOpen) <= 1
    /\ ctxOpen \subseteq {i + 1}
    /\ pc = "ss_newContext" => (ctxOpen = {} /\ logger # "open")
    /\ Ended => ctxOpen = {}

C4_Witness ==
    /\ pc = "ss_newContext"
    /\ i = 1
    /\ 1 \in threw
    /\ logger = "closed"

\* C5: a click is classified dead exactly when the URL and the DOM of the page are
\* the same before and after it.
C5_DeadIffUnchanged ==
    verdict.made =>
        (verdict.isDead <=> (/\ verdict.beforeUrl = verdict.afterUrl
                             /\ verdict.beforeBody = verdict.afterBody))

\* C6: when rageClick(N) is about to return and no snapshot and no click failed, it
\* has logged exactly N rage_click records, numbered 1 .. N in order, each with
\* total_clicks = N.
C6_RageLogsOneToN ==
    (pc = "rage_return" /\ ~rage.broke /\ rage.failed = {}) =>
        /\ Len(RageClicks) = rage.clickCount
        /\ \A j \in 1 .. Len(RageClicks) :
              /\ RageClicks[j].metadata.click_number = j
              /\ RageClicks[j].metadata.total_clicks = rage.clickCount

C6_Witness ==
    /\ pc = "rage_return"
    /\ ~rage.broke
    /\ rage.failed = {}
    /\ rage.clickCount >= 3
    /\ Len(RageClicks) >= 3

\* C7: when the click of repetition k raised, rageClick has logged no rage_click
\* record for repetition k or a later one.
C7_ClickFailureStopsBurst ==
    \A k \in rage.failed :
        \A j \in 1 .. Len(RageClicks) : RageClicks[j].metadata.click_number < k

ValidMix(mix) ==
    /\ mix.normal >= 0 /\ mix.frustrated >= 0 /\ mix.lost >= 0 /\ mix.error >= 0
    /\ mix.normal + mix.frustrated + mix.lost + mix.error = mix.den

Order == <<"normal_user", "frustrated_user", "lost_user", "error_user">>
WeightOf(mix, j) ==
    CASE j = 1 -> mix.normal [] j = 2 -> mix.frustrated
      [] j = 3 -> mix.lost [] j = 4 -> mix.error
Cumulative(mix, j) ==
    IF j = 0 THEN 0
    ELSE IF j = 1 THEN WeightOf(mix, 1)
    ELSE IF j = 2 THEN WeightOf(mix, 1) + WeightOf(mix, 2)
    ELSE IF j = 3 THEN WeightOf(mix, 1) + WeightOf(mix, 2) + WeightOf(mix, 3)
    ELSE WeightOf(mix, 1) + WeightOf(mix, 2) + WeightOf(mix, 3) + WeightOf(mix, 4)
\* cumulative weight of archetype j strictly greater than the draw
Exceeds(mix, j, rand) == Cumulative(mix, j) * rand.den > rand.num * mix.den
PickedIndex == CHOOSE j \in 1 .. 4 : Order[j] = picked.result

\* C8: on a mix of non-negative weights that sum to 1, selectScenario returns the
\* first archetype, in the order normal, frustrated, lost, error, whose cumulative
\* weight is strictly greater than the draw.
C8_FirstCumulativeAboveDraw ==
    (picked.made /\ ValidMix(picked.mix)) =>
        /\ Exceeds(picked.mix, PickedIndex, picked.rand)
        /\ \A j \in 1 .. 4 : j < PickedIndex => ~Exceeds(picked.mix, j, picked.rand)

C8_Witness ==
    /\ picked.made
    /\ ValidMix(picked.mix)
    /\ picked.result = "lost_user"
    /\ picked.mix.normal > 0
    /\ picked.rand.num * picked.mix.den = Cumulative(picked.mix, 2) * picked.rand.den

ExampleRaw == [normal |-> 2, frustrated |-> 2, lost |-> 0, error |-> 0]

RawSum == args.raw.normal + args.raw.frustrated + args.raw.lost + args.raw.error
RawNonNegative ==
    /\ args.raw.normal >= 0 /\ args.raw.frustrated >= 0
    /\ args.raw.lost >= 0 /\ args.raw.error >= 0

FirstOfBox(els) ==
    {j \in 1 .. Len(els) :
        \A h \in 1 .. (j - 1) : els[h].boundingBox # els[j].boundingBox}
\* the a-th smallest index of a set of indices
Nth(indices, a) == CHOOSE j \in indices : Cardinality({h \in indices : h <= j}) = a

\* C11: the list findClickableElements returns holds no two candidates with the same
\* bounding box; of the candidates that share a box the first discovered is kept, and
\* the list is in discovery order.
C11_DedupedInDiscoveryOrder ==
    found.done =>
        /\ \A a, b \in 1 .. Len(found.result) :
              a # b => found.result[a].boundingBox # found.result[b].boundingBox
        /\ Len(found.result) = Cardinality(FirstOfBox(found.elements))
        /\ \A a \in 1 .. Len(found.result) :
              found.result[a] = found.elements[Nth(FirstOfBox(found.elements), a)]

\* a button that matches two selectors, a link drawn over it, and no probe raised
C11_Witness ==
    /\ found.done
    /\ found.raised = {}
    /\ found.dom = <<NodeHome, NodeBack, NodeOverlay>>
    /\ Len(found.elements) = 4
    /\ Len(found.result) = 2
    /\ found.result[2].selector = "a[href]"
    /\ found.result[2].text = "Go"

\* C12: a selector whose probe raised contributes no candidate to the returned list.
C12_RaisedSelectorContributesNothing ==
    found.done =>
        \A a \in 1 .. Len(found.result) : found.result[a].selector \notin found.raised

C14_TwoClicksThenRefocus ==
    loc.call = "refocusClick" =>
        /\ pc # "h_raised"
        /\ (pc = "h_returned" /\ Count(log, "refocus") > 0) =>
              /\ Count(log, "refocus") = 1
              /\ Count(log, "click") = 2
              /\ Last(log).event_type = "refocus"
              /\ "elapsed_ms" \in DOMAIN Last(log).metadata
        /\ (pc = "h_returned" /\ Count(log, "refocus") = 0) =>
              Count(log, "click") = Len(log)

\* C15: when the lost script has returned after a discovery of fewer than two
\* elements, its log holds no click, u_turn or refocus record and ends with the
\* session_end record of the script's termination.
C15_LostDegenerateTerminates ==
    (/\ pc = "ss_finally"
     /\ scenario = "lost_user"
     /\ (i + 1) \notin threw
     /\ Len(elements) < 2) =>
        /\ Count(log, "click") = 0
        /\ Count(log, "u_turn") = 0
        /\ Count(log, "refocus") = 0
        /\ Last(log).event_type = "session_end"

\* whether a candidate's text or selector contains "back"
ContainsBack(text, selector) == includesBack(toLowerCase(text)) \/ includesBack(selector)

\* C16: when the U-turn step has logged its u_turn record, the path is
\* [A.selector, B.selector, target.selector] with duration_seconds = 7, where the
\* target is the element clicked just before; the target contains "back" whenever a
\* candidate does, and is A otherwise.
C16_UTurnPrefersBack ==
    (pc = "l_refocus1" /\ Len(log) >= 2 /\ Last(log).event_type = "u_turn") =>
        LET path == Last(log).metadata.path
            target == log[Len(log) - 1]
        IN  /\ target.event_type = "click"
            /\ path = <<loc.elA.selector, loc.elB.selector, target.selector>>
            /\ Last(log).metadata.duration_seconds = 7
            /\ IF \E j \in 1 .. Len(elements) :
                     ContainsBack(elements[j].text, elements[j].selector)
               THEN ContainsBack(target.metadata.text, target.selector)
               ELSE target.selector = loc.elA.selector

\* C17: in an error session against an application that rejects every click, each
\* click record of the log carries the error message of the failed click.
C17_FailedClickLoggedWithError ==
    (scenario = "error_user" /\ env.click = "fails" /\ logger = "open") =>
        \A j \in 1 .. Len(log) :
            log[j].event_type = "click" => "error" \in DOMAIN log[j].metadata

\* the network_error records logged by the response listener
ResponseErrors ==
    Cardinality({j \in 1 .. Len(log) :
        /\ log[j].event_type = "network_error"
        /\ "statusText" \in DOMAIN log[j].metadata})

\* C18: the listeners of the error archetype are registered before its first
\* navigation is issued, and at every point of the script the log holds exactly one
\* console_error, page_error or network_error record for each console message of
\* severity error, uncaught page exception and response with status >= 400 so far.
C18_PassiveEventsLoggedOnce ==
    /\ pc = "e_goto404" => passive.on
    /\ (scenario = "error_user" /\ passive.on /\ logger = "open") =>
          /\ Count(log, "console_error") = passive.fired.console
          /\ Count(log, "page_error") = passive.fired.pageerror
          /\ ResponseErrors = passive.fired.response

\* a response with status 400 arrived between two scripted clicks
C18_Witness ==
    /\ pc = "ss_finally"
    /\ scenario = "error_user"
    /\ passive.fired.response = 1
    /\ ResponseErrors = 1
    /\ Count(log, "click") >= 2
    /\ Last(log).event_type = "session_end"
    /\ \E j \in 2 .. (Len(log) - 1) :
          /\ log[j].event_type = "network_error"
          /\ log[j].metadata.status = 400
          /\ log[j - 1].event_type = "click"
          /\ log[j + 1].event_type = "click"

\* C19: in the records of a session, session_start is the first record and nothing
\* follows a session_end record, whatever the listeners log and whenever they fire.
C19_NothingAfterSessionEnd ==
    /\ Len(log) > 0 => log[1].event_type = "session_start"
    /\ \A j \in 1 .. Len(log) :
          /\ log[j].event_type = "session_start" => j = 1
          /\ log[j].event_type = "session_end" => j = Len(log)

\* a listener fired while the context was being closed
C19_Witness ==
    /\ pc = "ss_closing"
    /\ scenario = "error_user"
    /\ passive.dropped >= 1
    /\ Len(log) > 2
    /\ Last(log).event_type = "session_end"

\* C20: in the output file the lines of one session are in the order in which it
\* logged them, and every line of a session precedes every line of a later session.
C20_SinkInSessionOrder ==
    \A a, b \in 1 .. Len(sink.file) :
        a < b =>
            /\ sink.file[a][1] <= sink.file[b][1]
            /\ sink.file[a][1] = sink.file[b][1] => sink.file[a][2] < sink.file[b][2]

\* C21: no two sessions of a run are given the same session identifier, whatever
\* the timestamps and the random suffixes drawn.
C21_SessionIdsDistinct ==
    \A a, b \in 1 .. Len(ids) : a # b => ids[a] # ids[b]

\* two sessions created in the same millisecond that drew the same suffix
C21_Witness ==
    /\ Len(ids) >= 2
    /\ \E timestamp \in 0 .. MaxStamp, random \in 0 .. MaxRandom :
          /\ ids[1] = generateSessionId(1, timestamp, random)
          /\ ids[2] = generateSessionId(2, timestamp, random)


\* the events sent while the j-th entry of the trace was handled
EmittedBy(j) ==
    SubSeq(sdk.sent, (IF j = 1 THEN 0 ELSE sdk.trace[j - 1].sent) + 1, sdk.trace[j].sent)
OfType(events, eventType) == SelectSeq(events, LAMBDA e : e.eventType = eventType)
IsPageClick(j) ==
    /\ sdk.trace[j].kind = "click"
    /\ sdk.trace[j].target.tagName \notin {"INPUT", "SELECT", "TEXTAREA"}
SameKey(j, k) == getElementKey(sdk.trace[j].target) = getElementKey(sdk.trace[k].target)
\* the j-th entry is the third click on its key within 800 ms since the last detection
RECURSIVE ThirdInWindow(_)
ThirdInWindow(j) ==
    /\ IsPageClick(j)
    /\ LET resets == {k \in 1 .. j - 1 : IsPageClick(k) /\ SameKey(j, k) /\ ThirdInWindow(k)}
           last == IF resets = {} THEN 0 ELSE CHOOSE k \in resets : \A m \in resets : m <= k
           window == {k \in last + 1 .. j :
                         /\ IsPageClick(k) /\ SameKey(j, k)
                         /\ sdk.trace[j].now - sdk.trace[k].now < 800}
       IN  Cardinality(window) = 3
ClickEntries == {j \in 1 .. Len(sdk.trace) : sdk.trace[j].kind = "click"}
\* a run of rapid clicks on one element: any three consecutive clicks span less than 800 ms
RapidRun ==
    /\ \A j \in 1 .. Len(sdk.trace) : j > 1 => IsPageClick(j) /\ SameKey(j, 2)
    /\ \A j \in 4 .. Len(sdk.trace) : sdk.trace[j].now - sdk.trace[j - 2].now < 800

UnloadEntries == {j \in 1 .. Len(sdk.trace) : sdk.trace[j].kind = "beforeunload"}
FieldFocusedBefore(j) ==
    \E k \in 1 .. j - 1 :
        /\ sdk.trace[k].kind = "focusin"
        /\ sdk.trace[k].target.tagName \in {"INPUT", "TEXTAREA", "SELECT"}
SubmittedBefore(j) == \E k \in 1 .. j - 1 : sdk.trace[k].kind = "submit"
EventTypes(events) == [k \in 1 .. Len(events) |-> events[k].eventType]

\* C23: on beforeunload page_view_end is sent first, and form_abandonment follows it
\* exactly when an input, textarea or select received focus and no submit occurred
\* during the page lifetime, in whatever order they happened
C23_FormAbandonmentOnExit ==
    sdk.attached =>
        \A j \in UnloadEntries :
            EventTypes(EmittedBy(j)) =
                IF FieldFocusedBefore(j) /\ ~SubmittedBefore(j)
                THEN <<"page_view_end", "form_abandonment">>
                ELSE <<"page_view_end">>
\* a field was focused and left, nothing was submitted, and the page is left
C23_Witness ==
    /\ sdk.attached
    /\ sdk.unloaded
    /\ \E j \in UnloadEntries :
          /\ FieldFocusedBefore(j)
          /\ ~SubmittedBefore(j)
          /\ EventTypes(EmittedBy(j)) = <<"page_view_end", "form_abandonment">>

FocusEntries ==
    {j \in 1 .. Len(sdk.trace) :
        sdk.trace[j].kind = "focusin" /\ fieldId(sdk.trace[j].target) # ""}
\* the entries before j at which the element focused at j lost focus
BlursOf(j) ==
    {k \in 1 .. j - 1 :
        /\ sdk.trace[k].kind = "focusout"
        /\ fieldId(sdk.trace[k].target) = fieldId(sdk.trace[j].target)}
\* the element focused at j lost focus less than 5 s before
RefocusedInTime(j) ==
    \E k \in BlursOf(j) :
        /\ \A m \in BlursOf(j) : m <= k
        /\ sdk.trace[j].now - sdk.trace[k].now < 5000

\* C24: an identified element that receives focus sends a refocus event exactly when it
\* lost focus less than 5 s before; in particular none when it never lost focus
C24_RefocusWithinFiveSeconds ==
    sdk.attached =>
        \A j \in FocusEntries :
            Len(OfType(EmittedBy(j), "refocus")) = (IF RefocusedInTime(j) THEN 1 ELSE 0)

IsActivity(j) == sdk.trace[j].kind \in {"click", "keydown", "mousemove", "scroll"}
TimerEntries == {j \in 1 .. Len(sdk.trace) : sdk.trace[j].kind = "timer"}

\* C25: idle_time is sent only by the idle timer, 30 s or more after the last click,
\* keydown, mousemove or scroll, and two idle_time events are separated by an activity
C25_IdleAfterThirtySeconds ==
    sdk.attached =>
        /\ \A j \in 1 .. Len(sdk.trace) :
              j \notin TimerEntries => OfType(EmittedBy(j), "idle_time") = <<>>
        /\ \A j \in TimerEntries :
              /\ EventTypes(EmittedBy(j)) = <<"idle_time">>
              /\ \A k \in 1 .. j - 1 :
                    IsActivity(k) => sdk.trace[j].now - sdk.trace[k].now >= 30000
              /\ \A k \in TimerEntries :
                    k < j => \E m \in k + 1 .. j - 1 : IsActivity(m)
\* an idle period is reported, the user acts, and the next idle period is reported
C25_Witness ==
    /\ sdk.attached
    /\ \E k, j \in TimerEntries :
          /\ k < j
          /\ \E m \in 1 .. k - 1 : IsActivity(m)
          /\ Len(OfType(sdk.sent, "idle_time")) = 2

\* C26: every appended record carries the instant at which the server received its
\* request as serverReceivedAt, whatever the body contains; success is answered only
\* for appended records and a failed append is answered 500
C26_ServerStampsAndAnswers ==
    server.listening =>
        /\ \A k \in 1 .. Len(server.file) :
              server.file[k].entry.serverReceivedAt =
                  toISOString(server.received[server.file[k].id].at)
        /\ \A r \in 1 .. Len(server.responses) :
              LET appended == \E k \in 1 .. Len(server.file) :
                                  server.file[k].id = server.responses[r].id
              IN  IF appended THEN server.responses[r].status = "success"
                  ELSE server.responses[r].code = 500
                       /\ server.responses[r].status = "error"

\* the script of the session returned: its own session_end record is the last one
NormalReturned ==
    /\ pc = "ss_finally"
    /\ scenario = "normal_user"
    /\ Len(log) >= 1
    /\ Last(log).event_type = "session_end"
    /\ "total_actions" \in DOMAIN Last(log).metadata
ClickIndexes == {j \in 1 .. Len(log) : log[j].event_type \in {"click", "dead_click"}}

\* C27: a normal session that found an element and returned performed 3 to 5 actions;
\* the first one logged a click or dead_click record carrying is_dead_click, every
\* later one a plain click record, so at most one dead_click is logged and it comes
\* before every other click record
C27_NormalFirstActionDetected ==
    (NormalReturned /\ Len(elements) >= 1) =>
        /\ Cardinality(ClickIndexes) \in 3 .. 5
        /\ \A j \in ClickIndexes :
              IF \A k \in ClickIndexes : j <= k
              THEN "is_dead_click" \in DOMAIN log[j].metadata
              ELSE /\ log[j].event_type = "click"
                   /\ "is_dead_click" \notin DOMAIN log[j].metadata
        /\ Count(log, "dead_click") <= 1
\* five actions, the first of them classified, the other four plain clicks
C27_Witness ==
    /\ NormalReturned
    /\ Len(elements) >= 1
    /\ Cardinality(ClickIndexes) = 5
    /\ \E j \in ClickIndexes : "is_dead_click" \in DOMAIN log[j].metadata
    /\ Cardinality({j \in ClickIndexes : "url_changed" \in DOMAIN log[j].metadata}) = 4

FrustratedReturned ==
    /\ pc = "ss_finally"
    /\ scenario = "frustrated_user"
    /\ (i + 1) \notin threw
ErraticScrolls ==
    SelectSeq(log, LAMBDA r : r.event_type = "scroll" /\ r.scenario = "frustrated_user")

\* C28: a frustrated session whose script returned logged 3 to 6 erratic scroll
\* records, the k-th of them with iteration k, and, when elements were found, 3 to 5
\* plain click records
C28_FrustratedLoopCounts ==
    FrustratedReturned =>
        /\ Len(ErraticScrolls) \in 3 .. 6
        /\ \A k \in 1 .. Len(ErraticScrolls) :
              /\ ErraticScrolls[k].metadata.behavior = "erratic"
              /\ ErraticScrolls[k].metadata.iteration = k
        /\ Len(elements) >= 1 => Count(log, "click") \in 3 .. 5
\* four erratic scrolls and four rapid clicks: neither loop stopped at its first chance
C28_Witness ==
    /\ FrustratedReturned
    /\ Len(elements) >= 1
    /\ Len(ErraticScrolls) = 4
    /\ Count(log, "click") = 4

UTurnIndexes == {j \in 1 .. Len(log) : log[j].event_type = "u_turn"}

\* C29: after the U-turn step of a lost session, a u_turn record was logged whenever
\* the URL after the click of B was the URL captured before the click of A, whatever
\* was drawn; a u_turn record directly follows the click record of its target, which
\* directly follows the click records of A and then B
C29_UTurnWhenUrlUnchanged ==
    /\ (pc = "l_refocus1" /\ loc.urlAtTurn = loc.urlBefore) =>
          /\ Len(log) >= 1
          /\ Last(log).event_type = "u_turn"
    /\ (pc = "l_refocus1" /\ UTurnIndexes # {}) =>
          /\ Last(log).event_type = "u_turn"
          /\ Cardinality(UTurnIndexes) = 1
          /\ Len(log) >= 4
          /\ log[Len(log) - 1].event_type = "click"
          /\ log[Len(log) - 1].selector = Last(log).metadata.path[3]
          /\ log[Len(log) - 2].event_type = "click"
          /\ log[Len(log) - 2].selector = loc.elB.selector
          /\ log[Len(log) - 2].metadata.text = loc.elB.text
          /\ log[Len(log) - 3].event_type = "click"
          /\ log[Len(log) - 3].selector = loc.elA.selector
          /\ log[Len(log) - 3].metadata.text = loc.elA.text
          /\ \A j \in 1 .. Len(log) - 4 : log[j].event_type # "click"
\* the clicks of A and B brought the page back to the URL it had before A, and the
\* return was made
C29_Witness ==
    /\ pc = "l_refocus1"
    /\ Len(elements) >= 2
    /\ loc.urlAtTurn = loc.urlBefore
    /\ env.click = "navigates"
    /\ Len(log) >= 4
    /\ Last(log).event_type = "u_turn"
    /\ log[Len(log) - 3].metadata.url_changed

\* C30: the elements A and B chosen for the U-turn are distinct candidates, and the
\* node the click of A resolves from A's selector is not the node the click of B
\* resolves from B's selector
C30_ClicksOnDifferentElements ==
    pc = "fc_picked" =>
        /\ loc.elA # loc.elB
        /\ first(found.dom, loc.elA.selector) # first(found.dom, loc.elB.selector)

\* the records logged by the catch block around the navigation to the invalid URL
NotFoundIndexes ==
    {j \in 1 .. Len(log) :
        /\ log[j].event_type = "network_error"
        /\ "error" \in DOMAIN log[j].metadata
        /\ log[j].metadata.status = 404}
NavigationIndexes == {j \in 1 .. Len(log) : log[j].event_type = "page_navigation"}

\* C31: in an error session, when the navigation to the invalid URL failed (the page
\* did not reach that URL) one network_error record with status 404 is logged and the
\* script goes on; a failure that ends the session before any page was reached comes
\* after that record; the page_navigation record of the target page comes after it
C31_NotFoundFailureAbsorbed ==
    /\ pc = "e_goto" =>
          /\ Cardinality(NotFoundIndexes) = (IF page.url = NotFoundUrl THEN 0 ELSE 1)
          /\ NavigationIndexes = {}
          /\ err = NoErr
    /\ (pc = "ss_catch" /\ scenario = "error_user" /\ page.url = BlankUrl) =>
          Cardinality(NotFoundIndexes) = 1
    /\ pc \in {"e_find", "e_next", "e_loop", "e_retry"} =>
          /\ Cardinality(NavigationIndexes) = 1
          /\ Cardinality(NotFoundIndexes) <= 1
          /\ \A j \in NotFoundIndexes : \A k \in NavigationIndexes : j < k
\* the invalid navigation failed, was logged, and the target page was reached
C31_Witness ==
    /\ pc = "e_find"
    /\ page = TradePage
    /\ \E j \in NotFoundIndexes : \E k \in NavigationIndexes : j < k

\* C32: every navigation and click a script or primitive issues carries a timeout of
\* 1 to 5 seconds and its rejection is caught where it is issued, so no session is
\* failed by a rejected navigation or click
C32_CallsBoundedAndAbsorbed ==
    /\ \A c \in BrowserCalls(pc) :
          /\ "timeout" \in DOMAIN c
          /\ c.timeout \in 1000 .. 5000
          /\ c.caught
    /\ pc = "ss_catch" =>
          err \notin {"page.goto: net::ERR_CONNECTION_REFUSED",
                      "locator.click: Timeout 30000ms exceeded"}

\* C33: however often init is called, the listeners are registered once: a click on
\* a non-form element sends exactly one click event and a click on a form element
\* none; a session identifier found in the storage is kept, and every event of the
\* page carries the same identifier
C33_InitAttachesOnce ==
    sdk.attached =>
        /\ sdk.listeners = 1
        /\ \A j \in ClickEntries :
              Len(OfType(EmittedBy(j), "click")) = (IF IsPageClick(j) THEN 1 ELSE 0)
        /\ sdk.stored # <<>> => sdk.sessionId = sdk.stored
        /\ \A k \in 1 .. Len(sdk.sent) : sdk.sent[k].sessionId = sdk.sent[1].sessionId
        /\ Len(OfType(sdk.sent, "page_view")) = sdk.inits
\* three init calls on a page that was loaded with a stored identifier, then a click
C33_Witness ==
    /\ sdk.attached
    /\ sdk.inits = 3
    /\ sdk.stored # <<>>
    /\ Len(sdk.trace) >= 4
    /\ IsPageClick(Len(sdk.trace))
    /\ sdk.trace[Len(sdk.trace) - 1].kind = "init"
    /\ Len(OfType(EmittedBy(Len(sdk.trace)), "click")) = 1

ScrollEntries == {j \in 1 .. Len(sdk.trace) : sdk.trace[j].kind = "scroll"}
\* the milestones of the scroll_depth events among `events`, in their order
Depths(events) ==
    LET depths == OfType(events, "scroll_depth")
    IN  [k \in 1 .. Len(depths) |-> depths[k].metadata.pct]
Range(seq) == {seq[k] : k \in 1 .. Len(seq)}
\* the milestones at or below the position of the j-th entry that no earlier event sent
DueAt(j) ==
    LET at == sdk.trace[j].at
        earlier == Range(Depths(SubSeq(sdk.sent, 1, sdk.trace[j - 1].sent)))
    IN  SelectSeq(<<25, 50, 75, 100>>,
                  LAMBDA m : /\ at.scrollHeight > 0
                             /\ m * at.scrollHeight <= at.scrollTop * 100
                             /\ m \notin earlier)

\* C34: every milestone is sent at most once on a page, the set of reached milestones
\* is the set of those sent so far, and a scroll sends the milestones at or below its
\* position that were not sent before, in ascending order
C34_ScrollMilestonesOnce ==
    sdk.attached =>
        /\ \A m \in {25, 50, 75, 100} :
              Cardinality({k \in 1 .. Len(Depths(sdk.sent)) : Depths(sdk.sent)[k] = m}) <= 1
        /\ sdk.reachedMilestones = Range(Depths(sdk.sent))
        /\ \A j \in ScrollEntries : Depths(EmittedBy(j)) = DueAt(j)
        /\ \A j \in 1 .. Len(sdk.trace) :
              j \notin ScrollEntries => Depths(EmittedBy(j)) = <<>>
\* a scroll to 25 %, one back to the same place, then one to the bottom
C34_Witness ==
    /\ sdk.attached
    /\ \E j \in ScrollEntries :
          /\ j >= 4
          /\ Depths(EmittedBy(j)) = <<50, 75, 100>>
          /\ j - 1 \in ScrollEntries /\ Depths(EmittedBy(j - 1)) = <<>>
          /\ sdk.trace[j - 1].at.scrollTop = 250
          /\ Depths(EmittedBy(j - 2)) = <<25>>

\* C35: when simulateMouseShake has returned and the mouse_move record is logged, its
\* iterations value is the number of pointer moves that were made
C35_ShakeIterationsRecorded ==
    (pc = "f_find" /\ scenario = "frustrated_user") =>
        /\ Last(log).event_type = "mouse_move"
        /\ Last(log).metadata.iterations = loc.moves

\* C36: the session_end record of a normal session whose script returned carries as
\* total_actions the number of click and dead_click records of the session
C36_TotalActionsPerformed ==
    NormalReturned => Last(log).metadata.total_actions = Cardinality(ClickIndexes)

\* C37: every event handed to the logger of the running session is written with the
\* identifier of that session and carries the archetype the session was assigned
C37_RecordsCarrySessionAndLabel ==
    LET sessionId == generateSessionId(i + 1, MaxStamp, MaxRandom)
    IN  \A j \in 1 .. Len(log) :
            LET entry == EventLog(MaxStamp, sessionId, log[j])
            IN  /\ log[j].scenario = scenario
                /\ entry.session_id = sessionId
                /\ entry.scenario = scenario
\* a frustrated session that logged records of its script and of rageClick and was
\* ended by the catch block of runSingleSession
C37_Witness ==
    /\ pc = "ss_finally"
    /\ scenario = "frustrated_user"
    /\ Count(log, "rage_click") >= 1
    /\ Count(log, "mouse_move") = 1
    /\ "error" \in DOMAIN Last(log).metadata

\* C38: no listener of the page calls SessionLogger.log with a record on a logger
\* whose close() was called, and no write on an ended stream raises
C38_NoLogAfterClose ==
    /\ passive.dropped = 0
    /\ pc # "crashed"

\* C39: the browser is launched once (by chromium.launch, before the loop), stays
\* open for every session of the run, and is closed once, by the finally block of
\* runSessions, whether the loop completed or raised; with a session count of zero
\* no session is started and the browser is still closed.
C39_BrowserLaunchedAndClosedOnce ==
    /\ [](started >= 1 /\ ~Ended => browser = "open")
    /\ [](Ended /\ err # "browserType.launch failed" => browser = "closed")
    /\ [](pc = "rs_done" /\ config.sessions = 0 => started = 0 /\ browser = "closed")
    /\ [][browser' # browser =>
              \/ pc = "rs_launch" /\ browser = "none" /\ browser' = "open"
              \/ pc = "rs_finally" /\ browser = "open" /\ browser' = "closed"]_vars

\* the loop raised in the second session, after a first session that used the same
\* browser, and the browser was closed
C39_Witness ==
    /\ pc = "rs_rejected"
    /\ started = 2
    /\ i = 1
    /\ err # NoErr
    /\ Len(log) = 0
    /\ browser = "closed"
====
